---- MODULE Spec2Model ----
(***************************************************************************)
(* A model of rr's syscall-buffering preload shim (share/syscall_buffer.c) *)
(* and of the debugger diversion loop (diverter.cc).                       *)
(*                                                                         *)
(* The shim runs inside one recorded thread W.  A wrapper invocation is a  *)
(* frame on `stack'; a signal handler that calls a wrapper pushes a second *)
(* frame on top of the interrupted one.  The tracer, the kernel and a      *)
(* second task R are the environment of the shim.                          *)
(***************************************************************************)
EXTENDS Integers, Sequences, FiniteSets, TLC

(***************************************************************************)
(* Bounds of the model.                                                    *)
(***************************************************************************)
\* width of a pointer in bits (the build is 32 bit; pointer arithmetic wraps)
PtrBits == 16
\* size of the mapped ring in 4-byte words
RingWords == 10
\* wrapper invocations in one run
MaxCalls == 2
\* tasks one recording can hold; task 1 is the initial task
NTasks == 2
\* frames after which the tracees only exit
MaxFrames == 5

PtrMod == 2 ^ PtrBits

(***************************************************************************)
(* Program constants.                                                      *)
(***************************************************************************)
SYS_restart_syscall == 0
SYS_fork == 2
SYS_kill == 37
SYS_ioctl == 54
SYS_gettimeofday == 78
SYS_ipc == 117
SYS_clone == 120
SYS_nanosleep == 162
SYS_rt_sigqueueinfo == 178
SYS_tkill == 238
SYS_clock_gettime == 265
SYS_tgkill == 270
SYS_rt_tgsigqueueinfo == 335

EINTR == 4
EHWPOISON == 133

\* enum { WILL_ARM_DESCHED_EVENT, DISARMED_DESCHED_EVENT, NO_DESCHED }
WILL_ARM_DESCHED_EVENT == 0
DISARMED_DESCHED_EVENT == 1
NO_DESCHED == 2

\* sizeof(struct timespec), sizeof(struct timeval), sizeof(struct timezone)
SizeofTimespec == 8
SizeofTimeval == 8
SizeofTimezone == 8
\* length of the instruction `int $0x80'
Int80Len == 2

\* syscall_buffer.h: the ring header, a record header, the rounding unit
SizeofHdr == 4
SizeofRecord == 8
WordBytes == 4
SYSCALLBUF_BUFFER_SIZE == WordBytes * RingWords

(***************************************************************************)
(* Pointer arithmetic on PtrBits-bit addresses; NULL is 0.                 *)
(***************************************************************************)
NULL == 0
PAdd(p, n) == (p + n) % PtrMod
PSub(a, b) == ((a - b) + PtrMod) % PtrMod

\* syscall_buffer.h: the space a record of `length' bytes takes in the ring
stored_record_size(length) ==
  (((length + WordBytes - 1) \div WordBytes) * WordBytes) % PtrMod

(***************************************************************************)
(* The wrappers and their arguments (TRUE: the pointer is not NULL).       *)
(***************************************************************************)
Calls ==
  [fn : {"clock_gettime"}, tp : BOOLEAN, tzp : {FALSE}] \cup
  [fn : {"gettimeofday"}, tp : BOOLEAN, tzp : {TRUE}] \cup
  [fn : {"nanosleep"}, tp : BOOLEAN, tzp : {FALSE}]

SyscallNo(fn) ==
  CASE fn = "clock_gettime" -> SYS_clock_gettime
    [] fn = "gettimeofday" -> SYS_gettimeofday
    [] fn = "nanosleep" -> SYS_nanosleep

\* the notify_desched argument each wrapper gives to prep_syscall
WrapperDesched(fn) ==
  IF fn = "nanosleep" THEN WILL_ARM_DESCHED_EVENT ELSE NO_DESCHED

MayBlock(fn) == WrapperDesched(fn) = WILL_ARM_DESCHED_EVENT

\* the disarmed_desched argument each wrapper gives to commit_syscall
CommitDesched(fn) ==
  IF fn = "nanosleep" THEN DISARMED_DESCHED_EVENT ELSE NO_DESCHED

\* bytes of outparam space a wrapper reserves after the record header
Payload1(c) ==
  IF ~c.tp THEN 0
  ELSE CASE c.fn = "clock_gettime" -> SizeofTimespec
         [] c.fn = "gettimeofday" -> SizeofTimeval
         [] c.fn = "nanosleep" -> SizeofTimespec
Payload2(c) == IF c.tzp THEN SizeofTimezone ELSE 0

\* results the kernel can give
KernelRets(fn) == {0, -EINTR}

(***************************************************************************)
(* Addresses.                                                              *)
(***************************************************************************)
\* where `_untraced_syscall_entry_point' may be loaded
EntryPoints == {8256, 20608}
\* where mmap puts the ring in a process with that text address: low, or
\* near the top of the address space
BufferAddrs(ep) == IF ep = 8256 THEN {4096} ELSE {PtrMod - 8192}
\* the `int $0x80' inside libc's syscall(), somewhere else in the text
LibcSyscallInsn(ep) == PAdd(ep, 1000)

\* the instruction pointer a syscall made by the `int $0x80' at `insn'
\* is seen with: the address of the next instruction
SyscallIp(insn) == PAdd(insn, Int80Len)

VARIABLES
  entry_point,               \* address of _untraced_syscall_entry_point
  is_seccomp_bpf_installed,
  seccomp_filter,            \* the installed BPF program, <<>> if none
  published_ip,              \* untraced_syscall_ip given to the tracer
  buffer,                    \* address of the ring, NULL before set_up_buffer
  buffer_locked,
  num_rec_bytes,             \* hdr->num_rec_bytes
  abort_commit,              \* hdr->abort_commit
  ring,                      \* the words of the ring after the header
  flushed,                   \* the tracer's last SYSCALLBUF_FLUSH frame
  desched,                   \* the desched perf counter of the thread
  errno,
  stack,                     \* wrapper invocations in progress
  calls,                     \* wrapper invocations started
  last_sys,                  \* the last syscall the kernel saw
  running,                   \* the task the tracer has resumed
  sigio,                     \* SIGIO of the desched counter is pending
  pipe_full,                 \* W's blocked syscall cannot complete yet
  dv,                        \* the diversion (diverter.cc)
  sched,                     \* the record session: scheduler and trace
  rr,                        \* a test program, recorded and then replayed
  proc                       \* a process: its threads' first calls, fork

shim_vars ==
  <<entry_point, is_seccomp_bpf_installed, seccomp_filter, published_ip,
    buffer, buffer_locked, num_rec_bytes, abort_commit, ring, desched, errno,
    stack, calls, last_sys, running, sigio, pipe_full, flushed>>

vars == <<shim_vars, dv, sched, rr, proc>>

(***************************************************************************)
(* The seccomp-bpf filter: install_syscall_filter's program, and what the  *)
(* kernel does with it at a syscall made at instruction pointer `ip'.      *)
(***************************************************************************)
\* the address of the label _untraced_syscall_entry_point_ip, which follows
\* the `int $0x80' at _untraced_syscall_entry_point
MutEntryPointItself(ep) == ep
get_untraced_syscall_entry_point(ep) == PAdd(ep, Int80Len)

MutFilterNoRestart(protected_call_start) ==
  << [op |-> "ALLOW_SYSCALLS_FROM_CALLSITE", arg |-> protected_call_start],
     [op |-> "EXAMINE_SYSCALL", arg |-> 0],
     [op |-> "ALLOW_SYSCALL", arg |-> SYS_clone],
     [op |-> "ALLOW_SYSCALL", arg |-> SYS_fork],
     [op |-> "TRACE_PROCESS", arg |-> 0] >>
filter(protected_call_start) ==
  << [op |-> "ALLOW_SYSCALLS_FROM_CALLSITE", arg |-> protected_call_start],
     [op |-> "EXAMINE_SYSCALL", arg |-> 0],
     [op |-> "ALLOW_SYSCALL", arg |-> SYS_clone],
     [op |-> "ALLOW_SYSCALL", arg |-> SYS_fork],
     [op |-> "ALLOW_SYSCALL", arg |-> SYS_restart_syscall],
     [op |-> "TRACE_PROCESS", arg |-> 0] >>

\* seccomp-bpf.h: run the program from instruction i with accumulator acc
RECURSIVE RunFilter(_, _, _, _, _)
RunFilter(prog, i, acc, ip, no) ==
  IF i > Len(prog) THEN "kill"
  ELSE LET insn == prog[i] IN
    CASE insn.op = "ALLOW_SYSCALLS_FROM_CALLSITE" ->
           IF ip = insn.arg THEN "allow" ELSE RunFilter(prog, i + 1, ip, ip, no)
      [] insn.op = "EXAMINE_SYSCALL" -> RunFilter(prog, i + 1, no, ip, no)
      [] insn.op = "ALLOW_SYSCALL" ->
           IF acc = insn.arg THEN "allow" ELSE RunFilter(prog, i + 1, acc, ip, no)
      [] insn.op = "TRACE_PROCESS" -> "trace"

\* how a syscall ends for the tracer: a seccomp trace stop, the ptrace event
\* of clone and fork, or no stop at all
How(prog, ip, no) ==
  LET verdict == IF prog = <<>> THEN "trace" ELSE RunFilter(prog, 1, 0, ip, no) IN
  IF verdict # "allow" THEN "seccomp_trace"
  ELSE IF no \in {SYS_clone, SYS_fork} THEN "ptrace_event"
  ELSE "untraced"

NoSys == [ip |-> NULL, no |-> 0, how |-> "none"]
Sys(ip, no) == [ip |-> ip, no |-> no, how |-> How(seccomp_filter, ip, no)]

\* instruction pointers and syscall numbers application code may use
AppIps ==
  {entry_point, SyscallIp(entry_point), SyscallIp(LibcSyscallInsn(entry_point))}
AppSyscalls == {SYS_restart_syscall, SYS_clone, SYS_kill, SYS_nanosleep}

(***************************************************************************)
(* The ring.                                                               *)
(***************************************************************************)
Zero == [k |-> "zero", id |-> 0, ret |-> 0, no |-> 0, ds |-> 0, sz |-> 0, w |-> {}]
RingIdx == 1 .. (RingWords - 1)
\* the word of the ring that holds address a
WordAt(a) == PSub(a, buffer) \div WordBytes
Put(r, idx, w) == [i \in DOMAIN r |-> IF i = idx THEN w ELSE r[i]]

MutFlushRecordHeaders(r, n, old) ==
  IF n = 0 THEN old
  ELSE [n |-> n, bytes |-> [j \in 1 .. (n \div WordBytes) |->
                              IF r[j].k = "pay" THEN Zero ELSE r[j]]]
\* the tracer's flush: the frame holds the num_rec_bytes bytes of the record
\* area; an empty ring gives no frame
flush_syscallbuf(r, n, old) ==
  IF n = 0 THEN old
  ELSE [n |-> n, bytes |-> [j \in 1 .. (n \div WordBytes) |-> r[j]]]
NoFlush == [n |-> 0, bytes |-> <<>>]
\* the tracer writes the frame and resets the ring
Flush ==
  /\ flushed' = flush_syscallbuf(ring, num_rec_bytes, flushed)
  /\ num_rec_bytes' = 0

buffer_last == PAdd(PAdd(buffer, SizeofHdr), num_rec_bytes)
buffer_end == PAdd(buffer, SYSCALLBUF_BUFFER_SIZE)

(***************************************************************************)
(* Wrapper invocations.                                                    *)
(***************************************************************************)
Top == stack[Len(stack)]
SetTop(f) == [stack EXCEPT ![Len(stack)] = f]
At(pc) == stack # <<>> /\ Top.pc = pc /\ running = "W"

NewFrame(id, c) ==
  [id |-> id, fn |-> c.fn, tp |-> c.tp, tzp |-> c.tzp, pc |-> "prep",
   ptr |-> NULL, tp2 |-> NULL, tzp2 |-> NULL, ret |-> 0, own |-> FALSE,
   start |-> NULL, ci |-> 1, pay |-> FALSE, chk |-> "none",
   entry_locked |-> buffer_locked, recs |-> 0, pairs |-> 0, rv |-> 0,
   path |-> "none", ab |-> 0, out1 |-> <<>>, out2 |-> <<>>]

(***************************************************************************)
(* The state of a diversion (diverter.cc).                                 *)
(***************************************************************************)
\* the tasks of the session: their thread-group id and recorded tid
Tasks == {1, 2}
Tgid(t) == 100
RecTid(t) == 100 + t
\* Session::find_task: the task with that recorded tid, or none
NoTask == 0
find_task(tid) == IF \E t \in Tasks : RecTid(t) = tid
                  THEN CHOOSE t \in Tasks : RecTid(t) = tid
                  ELSE NoTask

NoRegs == [original_syscallno |-> -1, args |-> 0, syscall_result |-> 0]
NoLive == [no |-> -1, args |-> 0, tid |-> NoTask]
NoStop == [pid |-> 0, tid |-> 0, sig |-> 0]
\* no diversion
DvOff ==
  [phase |-> "off", refcount |-> 0, t |-> NoTask, req |-> "none",
   target |-> 0, dispatched |-> "none", resumed |-> "none", stop |-> "none",
   stopped |-> NoTask, child_sig |-> 0, pending_sig |-> 0,
   bkpt_user |-> FALSE,
   desched |-> FALSE, regs |-> NoRegs, live |-> NoLive, kres |-> 0,
   emu_finished |-> FALSE, notified |-> NoStop, killed |-> FALSE,
   session |-> "null", dispatched_to |-> "none",
   mem |-> [replay |-> 0, diversion |-> 0],
   len |-> 0, reply |-> [type |-> "none", bytes |-> <<>>]]

(***************************************************************************)
(* The record session: the scheduler, the tasks' state machines and the    *)
(* trace writer, with the tracees' programs and the kernel as environment. *)
(***************************************************************************)

Tids == 1 .. NTasks
NoTid == 0
\* priority classes: the lower integer is the higher priority
Prios == {0, 1}
TaskStates ==
  {"UNBORN", "RUNNABLE", "RUNNING", "STOPPED_BY_SIGNAL", "AT_SYSCALL_ENTRY",
   "AT_SYSCALL_EXIT", "EXITED"}
\* the syscalls of the recorded programs
RecSyscalls == {"write", "nanosleep", "clone", "exit", "exit_group"}
may_block(no) == no = "nanosleep"
is_exit(no) == no \in {"exit", "exit_group"}

ScInit ==
  [st |-> [t \in Tids |-> IF t = 1 THEN "RUNNABLE" ELSE "UNBORN"],
   prio |-> [t \in Tids |-> 0],
   q |-> <<1>>,               \* the live tasks in rotation order
   cur |-> NoTid,             \* the task the scheduler has resumed
   sys |-> [t \in Tids |-> "none"],   \* none, entered, blocked, woken
   no |-> [t \in Tids |-> "none"],    \* the syscall a task is in
   dying |-> {},              \* tasks killed by an exit_group, not yet reaped
   trace |-> <<>>,
   global_time |-> 1,
   resumes |-> <<>>,          \* the tasks in the order they were resumed
   win |-> <<>>,              \* preempted tasks since the contenders changed
   out |-> <<>>]              \* what the tracees wrote while recorded

\* a task the scheduler may pick: stopped or preempted and not suspended in
\* the kernel, or killed and waiting to be reaped
MutBlockedNeverPicked(s, t) ==
  /\ s.st[t] \in {"RUNNABLE", "STOPPED_BY_SIGNAL", "AT_SYSCALL_ENTRY",
                  "AT_SYSCALL_EXIT"}
  /\ s.sys[t] # "blocked"
Schedulable(s, t) ==
  /\ s.st[t] \in {"RUNNABLE", "STOPPED_BY_SIGNAL", "AT_SYSCALL_ENTRY",
                  "AT_SYSCALL_EXIT"}
  /\ s.sys[t] # "blocked" \/ t \in s.dying

\* the tasks that share the CPU: those running or ready to be picked
Contenders(s) == {t \in Tids : s.st[t] = "RUNNING" \/ Schedulable(s, t)}
EqualPriority(s) == \A t, u \in Contenders(s) : s.prio[t] = s.prio[u]

RECURSIVE FirstIn(_, _)
FirstIn(q, S) ==
  IF q = <<>> THEN NoTid
  ELSE IF Head(q) \in S THEN Head(q) ELSE FirstIn(Tail(q), S)

\* the scheduler's choice: the first task in rotation order of the best
\* priority class that can be picked
PickNext(s) ==
  FirstIn(s.q, {t \in Tids : Schedulable(s, t) /\
                   \A u \in Tids : Schedulable(s, u) => s.prio[t] <= s.prio[u]})

Without(q, t) == SelectSeq(q, LAMBDA u : u # t)
\* a task that used up its timeslice goes to the tail
MutStayAtHead(q, t) == q
ToTail(q, t) == Append(Without(q, t), t)

\* the trace writer: one frame of the task that stopped, stamped with the
\* next global_time
MutSameTime(s, t, event, no, data) ==
  [s EXCEPT !.trace = Append(@, [global_time |-> s.global_time, tid |-> t,
                                 event |-> event, no |-> no, data |-> data,
                                 resume |-> Len(s.resumes)]),
            !.global_time = IF event = "SCHED" THEN @ ELSE @ + 1]
WriteFrame(s, t, event, no, data) ==
  [s EXCEPT !.trace = Append(@, [global_time |-> s.global_time, tid |-> t,
                                 event |-> event, no |-> no, data |-> data,
                                 resume |-> Len(s.resumes)]),
            !.global_time = @ + 1]

\* the window of preemptions lasts while the same tasks, all of one
\* priority, share the CPU
Track(s0, s1) ==
  IF Contenders(s1) = Contenders(s0) /\ EqualPriority(s1)
  THEN s1 ELSE [s1 EXCEPT !.win = <<>>]

(***************************************************************************)
(* The recorded program: src/test/intr_sleep_no_restart.c.  Task "M" runs  *)
(* main, task "R" runs reader_thread and the two signal handlers.          *)
(***************************************************************************)
RTids == {"M", "R"}
\* what an interrupted nanosleep may leave in rem, what gettimeofday may give
Remaining == {1, 2}
Times == {5, 6}

\* the syscalls and assertions of each function, in program order; the
\* barrier and main's other progress lines and naps only delay the signals
Prog(fn) ==
  CASE fn = "main" ->
         <<"gettimeofday", "pthread_create", "puts", "kill_SIGUSR1",
           "kill_SIGUSR2", "pthread_join", "puts", "exit_group">>
    [] fn = "reader_thread" ->
         <<"puts", "nanosleep", "assert_intr", "assert_rem", "exit">>
    [] fn = "sighandler" ->
         <<"puts", "nanosleep", "assert_intr", "assert_rem", "sigreturn">>
    [] fn = "sighandler2" ->
         <<"puts", "nanosleep", "assert_fin", "assert_untouched", "sigreturn">>
    [] fn = "test_assert_failed" -> <<"puts", "exit_group">>

\* the line the atomic_puts of activation a writes
PutsText(a) ==
  CASE a.fn = "main" ->
         IF a.pc = Len(Prog("main")) - 1
         THEN "EXIT-SUCCESS" ELSE "M: killing reader ..."
    [] a.fn = "reader_thread" -> "r: blocking on sleep, awaiting signal ..."
    [] a.fn = "sighandler" -> "r: in sighandler level 1 ..."
    [] a.fn = "sighandler2" -> "r: in sighandler level 2 ..."
    [] a.fn = "test_assert_failed" -> "FAILED"

Handler(sig) == IF sig = "SIGUSR1" THEN "sighandler" ELSE "sighandler2"
\* struct timespec rem = { 0 } in intr_sleep, { -1, -1 } in fin_sleep
InitRem(fn) == IF fn = "sighandler2" THEN -1 ELSE 0

\* one call of a function: sys is the state of its syscall in progress, kret
\* the kernel's result, hit whether a signal arrived while it was blocked
Activation(fn, sig) ==
  [fn |-> fn, pc |-> 1, rem |-> InitRem(fn), ret |-> 0, sys |-> "none",
   kret |-> 0, sig |-> sig, hit |-> FALSE, entered |-> 0, saved |-> 0]

TaskInit(fn, st) ==
  [stack |-> <<Activation(fn, "none")>>, errno |-> 0, flags |-> 0, pend |-> {},
   mask |-> {}, ring |-> <<>>, ts |-> 0, st |-> st]
TraceeInit ==
  [t \in RTids |-> IF t = "M" THEN TaskInit("main", "run")
                   ELSE TaskInit("reader_thread", "unborn")]

RunInit == [tk |-> TraceeInit, out |-> <<>>, sleeps |-> <<>>]
RrOff ==
  [phase |-> "off", buffering |-> FALSE, tk |-> TraceeInit, out |-> <<>>,
   sleeps |-> <<>>, trace |-> <<>>, ri |-> 1, seen |-> <<>>, rec |-> RunInit]

(***************************************************************************)
(* A process of several threads that make their first wrapper calls, and   *)
(* a child it forks: init(), set_up_buffer() and drop_buffer().            *)
(***************************************************************************)
NThreads == 2
Threads == 1 .. NThreads
\* sigfillset(&mask)
AllSigs == {"SIGUSR1", "SIGUSR2"}
\* the rings the tracer maps: one for each thread, one for a forked child
ThreadRing(t) == t
ChildRing == NThreads + 1
ThreadInit(mask) ==
  [pc |-> "app", buffer |-> NULL, buffer_locked |-> 0, mask |-> mask,
   entry_mask |-> mask, calls |-> 0, setups |-> 0, signals |-> 0,
   cs_signal |-> FALSE]
NoChild ==
  [pc |-> "none", buffer |-> NULL, buffer_locked |-> 0,
   is_seccomp_bpf_installed |-> 0, inherited |-> NULL, held |-> 0,
   resume |-> FALSE, installs |-> 0, setups |-> 0, calls |-> 0]
\* no such process
ProcOff ==
  [is_seccomp_bpf_installed |-> 0, installs |-> 0, atforks |-> 0,
   th |-> <<>>, rings |-> <<>>, child |-> NoChild]

ShimInit ==
  /\ entry_point \in EntryPoints
  /\ is_seccomp_bpf_installed = 0
  /\ seccomp_filter = <<>>
  /\ published_ip = NULL
  /\ buffer = NULL
  /\ buffer_locked = 0
  /\ num_rec_bytes = 0
  /\ abort_commit = 0
  /\ ring = [i \in RingIdx |-> Zero]
  /\ flushed = NoFlush
  /\ desched = [open |-> FALSE, enabled |-> FALSE, sample_period |-> 0]
  /\ errno = 0
  /\ stack = <<>>
  /\ calls = 0
  /\ last_sys = NoSys
  /\ running = "W"
  /\ sigio = FALSE
  /\ pipe_full = FALSE

Init ==
  /\ ShimInit
  /\ dv = DvOff
  /\ sched = ScInit
  /\ rr = RrOff
  /\ proc = ProcOff

\* the application calls a wrapper
CallWrapper(c) ==
  /\ running = "W"
  /\ stack = <<>>
  /\ calls < MaxCalls
  /\ calls' = calls + 1
  /\ stack' = <<NewFrame(calls + 1, c)>>
  /\ last_sys' = NoSys
  /\ UNCHANGED <<entry_point, is_seccomp_bpf_installed, seccomp_filter, published_ip,
                 buffer, buffer_locked, num_rec_bytes, abort_commit, ring, desched,
                 errno, running, sigio, pipe_full, dv, sched, rr, proc, flushed>>

\* init(), first half: install_syscall_filter, once
InstallSyscallFilter ==
  /\ At("prep")
  /\ buffer = NULL
  /\ is_seccomp_bpf_installed = 0
  /\ seccomp_filter' = filter(get_untraced_syscall_entry_point(entry_point))
  /\ is_seccomp_bpf_installed' = 1
  /\ UNCHANGED <<entry_point, published_ip, buffer, buffer_locked, num_rec_bytes,
                 abort_commit, ring, desched, errno, stack, calls, last_sys, running, sigio, pipe_full, dv, sched, rr, proc, flushed>>

\* open_desched_event_counter(nr_descheds)
open_desched_event_counter(nr_descheds) ==
  [open |-> TRUE, enabled |-> FALSE, sample_period |-> nr_descheds]

\* init(), second half: set_up_buffer; the tracer maps the ring and
\* initializes its header
SetUpBuffer ==
  /\ At("prep")
  /\ buffer = NULL
  /\ is_seccomp_bpf_installed = 1
  /\ desched' = open_desched_event_counter(1)
  /\ published_ip' = get_untraced_syscall_entry_point(entry_point)
  /\ \E a \in BufferAddrs(entry_point) : buffer' = a
  /\ num_rec_bytes' = 0
  /\ abort_commit' = 0
  /\ ring' = [i \in RingIdx |-> Zero]
  /\ UNCHANGED <<entry_point, is_seccomp_bpf_installed, seccomp_filter, buffer_locked,
                 errno, stack, calls, last_sys, running,
                 sigio, pipe_full, dv, sched, rr, proc, flushed>>

filt_vars == <<entry_point, is_seccomp_bpf_installed, seccomp_filter, published_ip>>
env_vars == <<running, sigio, pipe_full>>

(***************************************************************************)
(* prep_syscall and can_buffer_syscall.                                    *)
(***************************************************************************)
\* prep_syscall once the ring is mapped: the pointer it returns, the lock
prep_syscall(locked, last) ==
  IF locked # 0
  THEN [ptr |-> NULL, locked |-> locked, own |-> FALSE]
  ELSE [ptr |-> PAdd(last, SizeofRecord), locked |-> 1, own |-> TRUE]

\* prep_syscall, then the wrapper's reservation of outparam space
PrepSyscall ==
  /\ At("prep")
  /\ buffer # NULL
  /\ LET p == prep_syscall(buffer_locked, buffer_last)
         f == Top
         tp2 == IF f.tp THEN p.ptr ELSE NULL
         ptr1 == IF f.tp THEN PAdd(p.ptr, Payload1(f)) ELSE p.ptr
         tzp2 == IF f.tzp THEN ptr1 ELSE NULL
         ptr2 == IF f.tzp THEN PAdd(ptr1, Payload2(f)) ELSE ptr1
     IN /\ buffer_locked' = p.locked
        /\ stack' = SetTop([f EXCEPT !.pc = "check", !.ptr = ptr2, !.tp2 = tp2,
                                     !.tzp2 = tzp2, !.own = p.own])
  /\ UNCHANGED <<filt_vars, env_vars, buffer, num_rec_bytes, abort_commit, ring,
                 desched, errno, calls, last_sys, dv, sched, rr, proc, flushed>>

MutNoOverflowCheck(record_end, record_start, buf_end) ==
  LET stored_end ==
        PAdd(record_start, stored_record_size(PSub(record_end, record_start)))
  IN IF stored_end < PAdd(record_start, SizeofRecord) THEN "bail" ELSE "ok"
MutBailUnlocks(record_end, record_start, buf_end) ==
  LET stored_end ==
        PAdd(record_start, stored_record_size(PSub(record_end, record_start)))
  IN IF stored_end < PAdd(record_start, SizeofRecord) THEN "overflow"
     ELSE IF stored_end > PSub(buf_end, SizeofRecord) THEN "overflow"
     ELSE "ok"
\* "ok": returns 1; "bail": returns 0; "overflow": unlocks and returns 0
can_buffer_syscall(record_end, record_start, buf_end) ==
  LET stored_end ==
        PAdd(record_start, stored_record_size(PSub(record_end, record_start)))
  IN IF stored_end < PAdd(record_start, SizeofRecord) THEN "bail"
     ELSE IF stored_end > PSub(buf_end, SizeofRecord) THEN "overflow"
     ELSE "ok"

CanBufferSyscall ==
  /\ At("check")
  /\ LET f == Top
         r == can_buffer_syscall(f.ptr, buffer_last, buffer_end)
     IN /\ buffer_locked' = IF r = "overflow" THEN 0 ELSE buffer_locked
        /\ stack' = SetTop([f EXCEPT
             !.pc = IF r # "ok" THEN "fallback"
                    ELSE IF MayBlock(f.fn) THEN "arm" ELSE "syscall",
             !.own = IF r = "overflow" THEN FALSE ELSE @,
             !.chk = r])
  /\ UNCHANGED <<filt_vars, env_vars, buffer, num_rec_bytes, abort_commit, ring,
                 desched, errno, calls, last_sys, dv, sched, rr, proc, flushed>>

(***************************************************************************)
(* The traced path: libc's syscall(), which traps to the tracer.           *)
(***************************************************************************)
MutErrnoNotSet(ret) ==
  IF 0 > ret /\ ret >= -EHWPOISON
  THEN [ret |-> -1, errno |-> 0, set |-> FALSE]
  ELSE [ret |-> ret, errno |-> 0, set |-> FALSE]
MutErrnoBelowPoison(ret) ==
  IF 0 > ret /\ ret > -EHWPOISON
  THEN [ret |-> -1, errno |-> -ret, set |-> TRUE]
  ELSE [ret |-> ret, errno |-> 0, set |-> FALSE]
\* if (0 > ret && ret >= -EHWPOISON) { errno = -ret; ret = -1; } return ret
update_errno_ret(ret) ==
  IF 0 > ret /\ ret >= -EHWPOISON
  THEN [ret |-> -1, errno |-> -ret, set |-> TRUE]
  ELSE [ret |-> ret, errno |-> 0, set |-> FALSE]

\* nanosleep writes rem when it is interrupted, the others write on success
KernelWrites(fn, r) == IF fn = "nanosleep" THEN r = -EINTR ELSE r = 0

\* n bytes of caller memory as the kernel writes them for invocation f
Direct(f, n) ==
  [j \in 1 .. (n \div WordBytes) |-> [Zero EXCEPT !.k = "direct", !.id = f.id]]

\* the frame of a wrapper that returns the raw result `raw', and errno; on
\* the traced path the kernel was given the caller's pointers
Returned(f, raw, path) ==
  [f EXCEPT !.pc = "ret", !.ret = raw, !.rv = update_errno_ret(raw).ret,
            !.path = path, !.own = FALSE,
            !.out1 = IF path = "traced" /\ f.tp /\ KernelWrites(f.fn, raw)
                     THEN Direct(f, Payload1(f)) ELSE @,
            !.out2 = IF path = "traced" /\ f.tzp /\ KernelWrites(f.fn, raw)
                     THEN Direct(f, Payload2(f)) ELSE @]
ErrnoAfter(raw) ==
  IF update_errno_ret(raw).set THEN update_errno_ret(raw).errno ELSE errno

\* return syscall(SYS_..., ...): the kernel sees a syscall from libc
FallbackTraced ==
  /\ At("fallback")
  /\ LET f == Top
         s == Sys(SyscallIp(LibcSyscallInsn(entry_point)), SyscallNo(f.fn))
     IN /\ last_sys' = s
        /\ IF s.how = "seccomp_trace"
           THEN /\ stack' = SetTop([f EXCEPT !.pc = "traced_stop"])
                /\ UNCHANGED errno
           ELSE \E r \in KernelRets(f.fn) :
                  /\ stack' = SetTop([Returned(f, r, "traced") EXCEPT !.own = f.own])
                  /\ errno' = ErrnoAfter(r)
  /\ UNCHANGED <<filt_vars, env_vars, buffer, buffer_locked, num_rec_bytes,
                 abort_commit, ring, desched, calls, dv, sched, rr, proc, flushed>>

\* the tracer at the stop of a traced syscall: it flushes the ring, records
\* the syscall as an enter/exit pair and lets the kernel execute it
TracerSyscallStop ==
  /\ At("traced_stop")
  /\ LET f == Top IN
     \E r \in KernelRets(f.fn) :
       /\ stack' = SetTop([Returned(f, r, "traced") EXCEPT
                              !.own = f.own, !.pairs = @ + 1])
       /\ errno' = ErrnoAfter(r)
  /\ Flush
  /\ UNCHANGED <<filt_vars, env_vars, buffer, buffer_locked, abort_commit, ring,
                 desched, calls, last_sys, dv, sched, rr, proc>>

\* the wrapper's return to its caller
Return ==
  /\ At("ret")
  /\ stack' = SubSeq(stack, 1, Len(stack) - 1)
  /\ UNCHANGED <<filt_vars, env_vars, buffer, buffer_locked, num_rec_bytes,
                 abort_commit, ring, desched, errno, calls, last_sys, dv, sched, rr, proc, flushed>>

(***************************************************************************)
(* The buffered path.                                                      *)
(***************************************************************************)
MutArmNothing(d) == d
\* arm_desched_event, disarm_desched_event: fatal() unless the ioctl returns 0
desched_ioctl_fatal(ret) == ret # 0
\* ioctl(desched_counter_fd, PERF_EVENT_IOC_ENABLE), untraced
arm_desched_event(d) == [d EXCEPT !.enabled = TRUE]

MutDisarmNothing(d) == d
\* ioctl(desched_counter_fd, PERF_EVENT_IOC_DISABLE), untraced
disarm_desched_event(d) == [d EXCEPT !.enabled = FALSE]

ArmDeschedEvent ==
  /\ At("arm")
  /\ desched' = arm_desched_event(desched)
  /\ last_sys' = Sys(SyscallIp(entry_point), SYS_ioctl)
  /\ stack' = SetTop([Top EXCEPT !.pc = "syscall"])
  /\ UNCHANGED <<filt_vars, env_vars, buffer, buffer_locked, num_rec_bytes,
                 abort_commit, ring, errno, calls, dv, sched, rr, proc, flushed>>

\* the words the kernel writes the outparams of f's syscall to
PayWords(f) ==
  {WordAt(PAdd(f.tp2, WordBytes * j)) : j \in 0 .. ((Payload1(f) \div WordBytes) - 1)}
  \cup
  {WordAt(PAdd(f.tzp2, WordBytes * j)) : j \in 0 .. ((Payload2(f) \div WordBytes) - 1)}

KernelWrite(f, r) ==
  IF ~KernelWrites(f.fn, r) THEN ring
  ELSE [i \in RingIdx |->
          IF i \in PayWords(f) THEN [Zero EXCEPT !.k = "pay", !.id = f.id]
          ELSE ring[i]]

\* untraced_syscall(...): `call _untraced_syscall_entry_point'.  The kernel
\* executes the syscall, or blocks W in it
IssueSyscall ==
  /\ At("syscall")
  /\ LET f == Top
         s == Sys(SyscallIp(entry_point), SyscallNo(f.fn))
         traced == s.how = "seccomp_trace"
     IN /\ last_sys' = s
        /\ \E blk \in (IF MayBlock(f.fn) /\ ~traced THEN BOOLEAN ELSE {FALSE}),
              r \in KernelRets(f.fn) :
             IF blk
             THEN /\ stack' = SetTop([f EXCEPT !.pc = "blocked"])
                  /\ pipe_full' = TRUE
                  /\ sigio' = (desched.open /\ desched.enabled
                                 /\ desched.sample_period = 1)
                  /\ UNCHANGED <<ring, num_rec_bytes, flushed>>
             ELSE /\ stack' = SetTop([f EXCEPT
                         !.pc = IF MayBlock(f.fn) THEN "disarm" ELSE "copy",
                         !.ret = r, !.pay = TRUE,
                         !.pairs = IF traced THEN @ + 1 ELSE @])
                  /\ ring' = KernelWrite(f, r)
                  /\ IF traced THEN Flush ELSE UNCHANGED <<num_rec_bytes, flushed>>
                  /\ UNCHANGED <<pipe_full, sigio>>
  /\ UNCHANGED <<filt_vars, running, buffer, buffer_locked, abort_commit, desched,
                 errno, calls, dv, sched, rr, proc>>

\* the tracer at the SIGIO stop of the desched counter: it disarms the
\* counter, takes W to be blocked and resumes another task
TracerDeschedStop ==
  /\ At("blocked")
  /\ sigio
  /\ sigio' = FALSE
  /\ desched' = [desched EXCEPT !.enabled = FALSE]
  /\ running' = "R"
  /\ Flush
  /\ UNCHANGED <<filt_vars, pipe_full, buffer, buffer_locked, abort_commit, ring,
                 errno, stack, calls, last_sys, dv, sched, rr, proc>>

\* the other task runs and drains the pipe
ReaderRun ==
  /\ running = "R"
  /\ pipe_full
  /\ pipe_full' = FALSE
  /\ UNCHANGED <<filt_vars, running, sigio, buffer, buffer_locked, num_rec_bytes,
                 abort_commit, ring, desched, errno, stack, calls, last_sys, dv, sched, rr, proc, flushed>>

\* W's descheduled syscall completes; the tracer has recorded it as an
\* ordinary enter/exit pair and tells the shim to drop its record
DeschedSyscallDone ==
  /\ stack # <<>>
  /\ Top.pc = "blocked"
  /\ running = "R"
  /\ ~pipe_full
  /\ LET f == Top IN
     \E r \in KernelRets(f.fn) :
       /\ stack' = SetTop([f EXCEPT !.pc = "disarm", !.ret = r, !.pay = TRUE,
                                    !.pairs = @ + 1])
       /\ ring' = KernelWrite(f, r)
  /\ abort_commit' = 1
  /\ running' = "W"
  /\ UNCHANGED <<filt_vars, sigio, pipe_full, buffer, buffer_locked, num_rec_bytes,
                 desched, errno, calls, last_sys, dv, sched, rr, proc, flushed>>

\* a signal interrupts W's descheduled syscall, and its handler calls a wrapper
SignalInterrupt(c) ==
  /\ stack # <<>>
  /\ Top.pc = "blocked"
  /\ running = "R"
  /\ ~sigio
  /\ calls < MaxCalls
  /\ LET f == [Top EXCEPT !.pc = "disarm", !.ret = -EINTR, !.pay = TRUE,
                          !.pairs = @ + 1] IN
       /\ stack' = Append(SetTop(f), NewFrame(calls + 1, c))
       /\ ring' = KernelWrite(f, -EINTR)
  /\ calls' = calls + 1
  /\ abort_commit' = 1
  /\ running' = "W"
  /\ pipe_full' = FALSE
  /\ Flush
  /\ UNCHANGED <<filt_vars, sigio, buffer, buffer_locked, desched, errno, last_sys, dv, sched, rr, proc>>

DisarmDeschedEvent ==
  /\ At("disarm")
  /\ desched' = disarm_desched_event(desched)
  /\ last_sys' = Sys(SyscallIp(entry_point), SYS_ioctl)
  /\ stack' = SetTop([Top EXCEPT !.pc = "copy"])
  /\ UNCHANGED <<filt_vars, env_vars, buffer, buffer_locked, num_rec_bytes,
                 abort_commit, ring, errno, calls, dv, sched, rr, proc, flushed>>

\* the n bytes of the ring at p
RecWords(r, p, n) ==
  [j \in 1 .. (n \div WordBytes) |-> r[WordAt(PAdd(p, WordBytes * (j - 1)))]]

\* memcpy of the outparams from the record to the caller's pointers
CopyOut ==
  /\ At("copy")
  /\ LET f == Top IN
     stack' = SetTop([f EXCEPT
       !.pc = "commit",
       !.out1 = IF f.tp THEN RecWords(ring, f.tp2, Payload1(f)) ELSE @,
       !.out2 = IF f.tzp THEN RecWords(ring, f.tzp2, Payload2(f)) ELSE @])
  /\ UNCHANGED <<filt_vars, env_vars, buffer, buffer_locked, num_rec_bytes,
                 abort_commit, ring, desched, errno, calls, last_sys, dv, sched, rr, proc, flushed>>

\* the memcpy faults on the caller's pointer: a synchronous signal, whose
\* handler calls a wrapper; the tracer flushes the ring at the signal stop
SyncSignal(c) ==
  /\ At("copy")
  /\ Top.tp \/ Top.tzp
  /\ calls < MaxCalls
  /\ stack' = Append(stack, NewFrame(calls + 1, c))
  /\ calls' = calls + 1
  /\ Flush
  /\ UNCHANGED <<filt_vars, env_vars, buffer, buffer_locked, abort_commit, ring,
                 desched, errno, last_sys, dv, sched, rr, proc>>

\* the same fault with a handler that makes no wrapped syscall and returns
\* into the memcpy: the handler's sigreturn is a traced syscall, and its
\* ptrace trap flushes the ring
SyncSignalReturns ==
  /\ At("copy")
  /\ Top.tp \/ Top.tzp
  /\ Flush
  /\ UNCHANGED <<filt_vars, env_vars, buffer, buffer_locked, abort_commit, ring,
                 desched, errno, stack, calls, last_sys, dv, sched, rr, proc>>

(***************************************************************************)
(* commit_syscall.                                                         *)
(***************************************************************************)
MutNeverAbort(abort) == FALSE
\* if (hdr->abort_commit)
commit_aborts(abort) == abort # 0

MutCountFirst == <<"num_rec_bytes", "ret", "syscallno", "desched", "size">>
\* the order of commit_syscall's writes when it does not abort
CommitOrder == <<"ret", "syscallno", "desched", "size", "num_rec_bytes">>

CommitEnter ==
  /\ At("commit")
  /\ LET f == Top IN
     IF commit_aborts(abort_commit)
     THEN /\ abort_commit' = 0
          /\ stack' = SetTop([f EXCEPT !.pc = "unlock", !.start = buffer_last,
                                       !.ab = abort_commit])
     ELSE /\ abort_commit' = abort_commit
          /\ stack' = SetTop([f EXCEPT !.pc = "fields", !.start = buffer_last,
                                       !.ci = 1, !.ab = abort_commit])
  /\ UNCHANGED <<filt_vars, env_vars, buffer, buffer_locked, num_rec_bytes, ring,
                 desched, errno, calls, last_sys, dv, sched, rr, proc, flushed>>

\* the record's second word, as f's write of one bit-field leaves it
InfoWord(old, id) ==
  IF old.k = "info" /\ old.id = id THEN old
  ELSE [old EXCEPT !.k = "info", !.id = id, !.ret = 0, !.w = {}]

RecSize(r, start) ==
  LET i == WordAt(PAdd(start, WordBytes)) IN IF i \in RingIdx THEN r[i].sz ELSE 0

CommitStep ==
  /\ At("fields")
  /\ LET f == Top
         step == CommitOrder[f.ci]
         w0 == WordAt(f.start)
         w1 == WordAt(PAdd(f.start, WordBytes))
         old == IF w1 \in RingIdx THEN InfoWord(ring[w1], f.id) ELSE Zero
     IN /\ ring' =
             CASE step = "ret" ->
                    Put(ring, w0, [Zero EXCEPT !.k = "ret", !.id = f.id, !.ret = f.ret])
               [] step = "syscallno" ->
                    Put(ring, w1, [old EXCEPT !.no = SyscallNo(f.fn), !.w = @ \cup {"no"}])
               [] step = "desched" ->
                    Put(ring, w1, [old EXCEPT
                       !.ds = IF NO_DESCHED # CommitDesched(f.fn) THEN 1 ELSE 0,
                       !.w = @ \cup {"ds"}])
               [] step = "size" ->
                    Put(ring, w1, [old EXCEPT !.sz = PSub(f.ptr, f.start),
                                              !.w = @ \cup {"sz"}])
               [] OTHER -> ring
        /\ num_rec_bytes' =
             IF step = "num_rec_bytes"
             THEN PAdd(num_rec_bytes, stored_record_size(RecSize(ring, f.start)))
             ELSE num_rec_bytes
        /\ stack' = SetTop([f EXCEPT
             !.ci = @ + 1,
             !.recs = IF step = "num_rec_bytes" THEN @ + 1 ELSE @,
             !.pc = IF f.ci = Len(CommitOrder) THEN "unlock" ELSE "fields"])
  /\ UNCHANGED <<filt_vars, env_vars, buffer, buffer_locked, abort_commit, desched,
                 errno, calls, last_sys, dv, sched, rr, proc, flushed>>

\* buffer_locked = 0; return update_errno_ret(ret)
CommitUnlock ==
  /\ At("unlock")
  /\ buffer_locked' = 0
  /\ stack' = SetTop(Returned(Top, Top.ret, "buffered"))
  /\ errno' = ErrnoAfter(Top.ret)
  /\ UNCHANGED <<filt_vars, env_vars, buffer, num_rec_bytes, abort_commit, ring,
                 desched, calls, last_sys, dv, sched, rr, proc, flushed>>

\* code outside the wrappers makes a syscall from any place
AppSyscall(ip, no) ==
  /\ running = "W"
  /\ stack = <<>>
  /\ is_seccomp_bpf_installed = 1
  /\ last_sys' = Sys(ip, no)
  /\ IF Sys(ip, no).how = "seccomp_trace" THEN Flush
     ELSE UNCHANGED <<num_rec_bytes, flushed>>
  /\ UNCHANGED <<filt_vars, env_vars, buffer, buffer_locked, abort_commit, ring,
                 desched, errno, stack, calls, dv, sched, rr, proc>>

Next ==
  \/ \E c \in Calls : CallWrapper(c)
  \/ InstallSyscallFilter
  \/ SetUpBuffer
  \/ PrepSyscall
  \/ CanBufferSyscall
  \/ FallbackTraced
  \/ TracerSyscallStop
  \/ Return
  \/ ArmDeschedEvent
  \/ IssueSyscall
  \/ TracerDeschedStop
  \/ ReaderRun
  \/ DeschedSyscallDone
  \/ \E c \in Calls : SignalInterrupt(c)
  \/ DisarmDeschedEvent
  \/ CopyOut
  \/ \E c \in Calls : SyncSignal(c)
  \/ SyncSignalReturns
  \/ CommitEnter
  \/ CommitStep
  \/ CommitUnlock
  \/ \E ip \in AppIps, no \in AppSyscalls : AppSyscall(ip, no)

Spec == Init /\ [][Next]_vars

(***************************************************************************)
(* update_errno_ret and commit_syscall over the raw results of a syscall:  *)
(* a buffered clock_gettime(clk_id, NULL), the first call of its thread,   *)
(* right after its untraced syscall.                                       *)
(***************************************************************************)
\* how far beyond the errno range the raw results go
ErrnoMargin == 3
\* the ends of int
IntMax == 2147483647
IntMin == -IntMax - 1
RawResults == (-(EHWPOISON + ErrnoMargin) .. ErrnoMargin) \cup {IntMin, IntMax}
\* errno before the call
OldErrnos == {0, EINTR}

AfterSyscall(r) ==
  [NewFrame(1, [fn |-> "clock_gettime", tp |-> FALSE, tzp |-> FALSE]) EXCEPT
     !.pc = "copy", !.ptr = PAdd(buffer_last, SizeofRecord), !.own = TRUE,
     !.ret = r, !.pay = TRUE, !.chk = "ok", !.entry_locked = 0]

ErrnoInit ==
  /\ entry_point \in EntryPoints
  /\ is_seccomp_bpf_installed = 1
  /\ seccomp_filter = filter(get_untraced_syscall_entry_point(entry_point))
  /\ published_ip = get_untraced_syscall_entry_point(entry_point)
  /\ buffer \in BufferAddrs(entry_point)
  /\ buffer_locked = 1
  /\ num_rec_bytes = 0
  /\ abort_commit = 0
  /\ ring = [i \in RingIdx |-> Zero]
  /\ flushed = NoFlush
  /\ desched = open_desched_event_counter(1)
  /\ errno \in OldErrnos
  /\ \E r \in RawResults : stack = <<AfterSyscall(r)>>
  /\ calls = 1
  /\ last_sys = Sys(SyscallIp(entry_point), SYS_clock_gettime)
  /\ running = "W"
  /\ sigio = FALSE
  /\ pipe_full = FALSE
  /\ dv = DvOff
  /\ sched = ScInit
  /\ rr = RrOff
  /\ proc = ProcOff

ErrnoNext ==
  \/ CopyOut
  \/ CommitEnter
  \/ CommitStep
  \/ CommitUnlock
  \/ Return

ErrnoSpec == ErrnoInit /\ [][ErrnoNext]_vars

(***************************************************************************)
(* Threads of one process making wrapper calls; the tracer may switch      *)
(* threads at each traced syscall, and a thread may fork.                  *)
(***************************************************************************)
ProcInit ==
  /\ ShimInit
  /\ \A ep \in EntryPoints : entry_point <= ep
  /\ dv = DvOff
  /\ sched = ScInit
  /\ rr = RrOff
  /\ \E masks \in [Threads -> {{}, {"SIGUSR2"}}] :
       proc = [ProcOff EXCEPT
                 !.th = [t \in Threads |-> ThreadInit(masks[t])],
                 !.rings = [r \in 1 .. ChildRing |->
                              [recs |-> 0, writers |-> {}]]]

\* a pointer to a signal set: <<>> is the null pointer, <<s>> points to s
NullSet == <<>>
\* the kernel's rt_sigprocmask(how, nset, ...): the new mask.  A null nset
\* changes nothing; a how that is none of SIG_BLOCK, SIG_UNBLOCK and
\* SIG_SETMASK fails with EINVAL and changes nothing.
rt_sigprocmask(mask, how, nset) ==
  IF nset = NullSet THEN mask
  ELSE CASE how = "SIG_BLOCK" -> mask \cup nset[1]
         [] how = "SIG_UNBLOCK" -> mask \ nset[1]
         [] how = "SIG_SETMASK" -> nset[1]
         [] OTHER -> mask

\* traced_sigprocmask(how, set, oldset) is syscall(SYS_rt_sigprocmask, set,
\* oldset): the kernel receives the address `set' as its how and what
\* `oldset' points to as its nset
traced_sigprocmask(mask, how, set, oldset) ==
  rt_sigprocmask(mask, "address", oldset)

\* prep_syscall after init(): the test of buffer_locked, then the lock
Lock(k) ==
  IF k.buffer_locked # 0
  THEN [k EXCEPT !.pc = "app"]
  ELSE [k EXCEPT !.buffer_locked = 1, !.pc = "locked"]

\* thread t calls a wrapper: prep_syscall, and init() up to its first
\* traced syscall when the thread has no ring
CallWrapperT(t) ==
  LET k == [proc.th[t] EXCEPT !.calls = @ + 1] IN
  /\ t \in DOMAIN proc.th
  /\ proc.th[t].pc = "app"
  /\ proc.th[t].calls < MaxCalls
  /\ proc' = [proc EXCEPT !.th[t] =
       IF k.buffer # NULL THEN Lock(k)
       ELSE IF proc.is_seccomp_bpf_installed = 0
            THEN [k EXCEPT !.pc = "no_new_privs"]
            ELSE [k EXCEPT !.pc = "counter", !.entry_mask = k.mask]]
  /\ UNCHANGED <<shim_vars, dv, sched, rr>>

\* install_syscall_filter: traced_prctl(PR_SET_NO_NEW_PRIVS)
NoNewPrivs(t) ==
  /\ t \in DOMAIN proc.th
  /\ proc.th[t].pc = "no_new_privs"
  /\ proc' = [proc EXCEPT !.th[t].pc = "seccomp"]
  /\ UNCHANGED <<shim_vars, dv, sched, rr>>

\* install_syscall_filter: traced_prctl(PR_SET_SECCOMP) installs the
\* filter; init() sets the flag, registers drop_buffer and enters
\* set_up_buffer
Seccomp(t) ==
  /\ t \in DOMAIN proc.th
  /\ proc.th[t].pc = "seccomp"
  /\ proc' = [proc EXCEPT !.installs = @ + 1,
                          !.is_seccomp_bpf_installed = 1,
                          !.atforks = @ + 1,
                          !.th[t].pc = "counter",
                          !.th[t].entry_mask = proc.th[t].mask]
  /\ UNCHANGED <<shim_vars, dv, sched, rr>>

\* set_up_buffer: assert(!buffer), open_desched_event_counter's traced
\* syscalls, the message for the rrcall, sigfillset
OpenCounter(t) ==
  /\ t \in DOMAIN proc.th
  /\ proc.th[t].pc = "counter"
  /\ proc.th[t].buffer = NULL
  /\ proc' = [proc EXCEPT !.th[t].pc = "block"]
  /\ UNCHANGED <<shim_vars, dv, sched, rr>>

\* set_up_buffer: traced_sigprocmask(SIG_BLOCK, &mask, &oldmask), oldmask
\* being uninitialized
BlockSignals(t, oldmask) ==
  /\ t \in DOMAIN proc.th
  /\ proc.th[t].pc = "block"
  /\ proc' = [proc EXCEPT
       !.th[t].pc = "rrcall",
       !.th[t].mask = traced_sigprocmask(@, "SIG_BLOCK", <<AllSigs>>,
                                         <<oldmask>>)]
  /\ UNCHANGED <<shim_vars, dv, sched, rr>>

\* set_up_buffer: rrcall_init_syscall_buffer, the tracer maps the thread's
\* ring
Rrcall(t) ==
  /\ t \in DOMAIN proc.th
  /\ proc.th[t].pc = "rrcall"
  /\ proc' = [proc EXCEPT !.th[t].pc = "restore",
                          !.th[t].buffer = ThreadRing(t),
                          !.th[t].setups = @ + 1]
  /\ UNCHANGED <<shim_vars, dv, sched, rr>>

\* set_up_buffer: traced_sigprocmask(SIG_SETMASK, &oldmask, NULL), oldmask
\* being what the first call left of it; back in prep_syscall the lock is
\* taken
RestoreSignals(t, oldmask) ==
  /\ t \in DOMAIN proc.th
  /\ proc.th[t].pc = "restore"
  /\ proc' = [proc EXCEPT !.th[t] =
       Lock([proc.th[t] EXCEPT
               !.mask = traced_sigprocmask(@, "SIG_SETMASK",
                                           <<oldmask>>,
                                           NullSet)])]
  /\ UNCHANGED <<shim_vars, dv, sched, rr>>

\* the untraced syscall and commit_syscall: one record more in the ring
\* that `buffer' names
Commit(rings, k, who) ==
  [rings EXCEPT ![k.buffer].recs = @ + 1,
                ![k.buffer].writers = @ \cup {who}]
CommitT(t) ==
  /\ t \in DOMAIN proc.th
  /\ proc.th[t].pc = "locked"
  /\ proc' = [proc EXCEPT !.rings = Commit(@, proc.th[t], "parent"),
                          !.th[t].buffer_locked = 0,
                          !.th[t].pc = "app"]
  /\ UNCHANGED <<shim_vars, dv, sched, rr>>

\* the pcs at which a thread is stopped at a traced syscall
TracedStops ==
  {"no_new_privs", "seccomp", "counter", "block", "rrcall", "restore"}
\* the kernel delivers a signal the thread's mask does not block, at a stop
\* of the thread; its handler returns
SignalT(t, sig) ==
  /\ t \in DOMAIN proc.th
  /\ proc.th[t].pc \in TracedStops
  /\ proc.th[t].signals = 0
  /\ sig \notin proc.th[t].mask
  /\ proc' = [proc EXCEPT
       !.th[t].signals = 1,
       !.th[t].cs_signal = proc.th[t].pc \in {"rrcall", "restore"}]
  /\ UNCHANGED <<shim_vars, dv, sched, rr>>

MutDropNothing(k) == k
\* drop_buffer
drop_buffer(k) == [k EXCEPT !.buffer = NULL, !.buffer_locked = 0]

\* the child handlers pthread_atfork registered, run in the child
RECURSIVE RunAtfork(_, _)
RunAtfork(k, n) == IF n = 0 THEN k ELSE RunAtfork(drop_buffer(k), n - 1)

\* thread t calls fork(), from application code or from the handler of a
\* synchronous signal raised inside a wrapper that holds the lock; the
\* child is a copy of the thread, in the handler when the thread was, with
\* the interrupted wrapper invocation to resume
Fork(t) ==
  /\ t \in DOMAIN proc.th
  /\ proc.child = NoChild
  /\ proc.th[t].pc \in {"app", "locked"}
  /\ proc' = [proc EXCEPT !.child =
       RunAtfork([NoChild EXCEPT
                    !.pc = "app",
                    !.resume = proc.th[t].pc = "locked",
                    !.buffer = proc.th[t].buffer,
                    !.buffer_locked = proc.th[t].buffer_locked,
                    !.held = proc.th[t].buffer_locked,
                    !.is_seccomp_bpf_installed = proc.is_seccomp_bpf_installed,
                    !.inherited = proc.th[t].buffer],
                 proc.atforks)]
  /\ UNCHANGED <<shim_vars, dv, sched, rr>>

\* init() in the single-threaded child
init(k) ==
  LET f == IF k.is_seccomp_bpf_installed = 0
           THEN [k EXCEPT !.installs = @ + 1, !.is_seccomp_bpf_installed = 1]
           ELSE k
  IN [f EXCEPT !.buffer = ChildRing, !.setups = @ + 1]

\* the child calls a wrapper: prep_syscall
ChildCall ==
  LET k == [proc.child EXCEPT !.calls = @ + 1] IN
  /\ proc.child.pc = "app"
  /\ proc.child.calls < MaxCalls
  /\ proc' = [proc EXCEPT !.child =
                Lock(IF k.buffer = NULL THEN init(k) ELSE k)]
  /\ UNCHANGED <<shim_vars, dv, sched, rr>>

\* the child's untraced syscall and commit_syscall
ChildCommit ==
  /\ proc.child.pc = "locked"
  /\ proc' = [proc EXCEPT !.rings = Commit(@, proc.child, "child"),
                          !.child.buffer_locked = 0,
                          !.child.pc = "app"]
  /\ UNCHANGED <<shim_vars, dv, sched, rr>>

\* the child's handler returns and the wrapper invocation it interrupted
\* goes on to commit_syscall, which takes the record's place from `buffer':
\* with a null buffer it reads the header at address 0 and the child dies
ChildResume ==
  /\ proc.child.pc = "app"
  /\ proc.child.resume
  /\ proc' = IF proc.child.buffer = NULL
             THEN [proc EXCEPT !.child.pc = "crashed", !.child.resume = FALSE]
             ELSE [proc EXCEPT !.rings = Commit(@, proc.child, "child"),
                               !.child.buffer_locked = 0,
                               !.child.resume = FALSE]
  /\ UNCHANGED <<shim_vars, dv, sched, rr>>

ProcNext ==
  \/ \E t \in Threads : CallWrapperT(t)
  \/ \E t \in Threads : NoNewPrivs(t)
  \/ \E t \in Threads : Seccomp(t)
  \/ \E t \in Threads : OpenCounter(t)
  \/ \E t \in Threads : \E oldmask \in SUBSET AllSigs : BlockSignals(t, oldmask)
  \/ \E t \in Threads : Rrcall(t)
  \/ \E t \in Threads : \E oldmask \in SUBSET AllSigs :
        RestoreSignals(t, oldmask)
  \/ \E t \in Threads : CommitT(t)
  \/ \E t \in Threads : \E sig \in AllSigs : SignalT(t, sig)

ProcSpec == ProcInit /\ [][ProcNext]_vars

ForkNext ==
  \/ ProcNext
  \/ \E t \in Threads : Fork(t)
  \/ ChildCall
  \/ ChildCommit
  \/ ChildResume

\* a process of two threads, one of which blocks SIGUSR2
ForkInit ==
  /\ ShimInit
  /\ \A ep \in EntryPoints : entry_point <= ep
  /\ dv = DvOff
  /\ sched = ScInit
  /\ rr = RrOff
  /\ proc = [ProcOff EXCEPT
               !.th = <<ThreadInit({}), ThreadInit({"SIGUSR2"})>>,
               !.rings = [r \in 1 .. ChildRing |->
                            [recs |-> 0, writers |-> {}]]]

ForkSpec == ForkInit /\ [][ForkNext]_vars

(***************************************************************************)
(* diverter.cc: the diversion loop.  The debugger and the diverted tracee  *)
(* are the environment; the shim's state is not touched.                   *)
(***************************************************************************)
\* references the debugger may hold at once
MaxRefs == 2

SIGTRAP == 5
SIGSEGV == 11
\* the kernel's value of the result register at a syscall-entry stop
ENOSYS == 38

Requests ==
  {"DREQ_CONTINUE", "DREQ_STEP", "DREQ_RESTART", "DREQ_READ_SIGINFO",
   "DREQ_WRITE_SIGINFO", "DREQ_SET_QUERY_THREAD", "DREQ_REMOVE_SW_BREAK",
   "DREQ_REMOVE_HW_BREAK", "DREQ_REMOVE_RD_WATCH", "DREQ_REMOVE_WR_WATCH",
   "DREQ_REMOVE_RDWR_WATCH", "DREQ_SET_SW_BREAK", "DREQ_SET_HW_BREAK",
   "DREQ_SET_RD_WATCH", "DREQ_SET_WR_WATCH", "DREQ_SET_RDWR_WATCH",
   "DREQ_GET_REGS", "DREQ_SET_MEM"}
BreakRequests ==
  {"DREQ_REMOVE_SW_BREAK", "DREQ_REMOVE_HW_BREAK", "DREQ_REMOVE_RD_WATCH",
   "DREQ_REMOVE_WR_WATCH", "DREQ_REMOVE_RDWR_WATCH", "DREQ_SET_SW_BREAK",
   "DREQ_SET_HW_BREAK", "DREQ_SET_RD_WATCH", "DREQ_SET_WR_WATCH",
   "DREQ_SET_RDWR_WATCH"}
\* req->mem.len of a DREQ_READ_SIGINFO
SiginfoLens == {0, 2}
dbg_is_resume_request(req) == req \in {"DREQ_CONTINUE", "DREQ_STEP"}
TargetTids == {RecTid(1), RecTid(2), 999}

\* ReplaySession: the diversion reference count
diversion_ref(n) == n + 1
diversion_unref(n) == n - 1
diversion_dying(n) == n = 0

DivSyscalls ==
  {SYS_ipc, SYS_kill, SYS_rt_sigqueueinfo, SYS_rt_tgsigqueueinfo, SYS_tgkill,
   SYS_tkill, SYS_ioctl, SYS_nanosleep, SYS_gettimeofday}
DivArgs == {1, 2}

\* divert(): session = replay.clone_diversion(); t = session->find_task(task)
DivertInit ==
  /\ ShimInit
  /\ \E task \in Tasks :
       dv = [DvOff EXCEPT !.phase = "requests", !.refcount = 1,
                          !.t = find_task(RecTid(task)), !.session = "diversion"]
  /\ sched = ScInit
  /\ rr = RrOff
  /\ proc = ProcOff

\* divert() after its loop: assert(diversion_dying()), which aborts the
\* tracer when it fails, then kill_all_tasks() and session = nullptr
DivertExit(d) ==
  IF diversion_dying(d.refcount)
  THEN [d EXCEPT !.phase = "done", !.killed = TRUE, !.session = "null"]
  ELSE [d EXCEPT !.phase = "assert_failed"]

\* what a dispatched request does to the memory of the session it is given
\* to
Applied(mem, sess, req) ==
  IF req = "DREQ_SET_MEM" THEN [mem EXCEPT ![sess] = 1] ELSE mem

\* a resumed tracee of that session runs and writes its memory
TraceeRan(mem, sess) == [mem EXCEPT ![sess] = 1]

MutDispatchToReplay(d) ==
  [d EXCEPT !.dispatched = d.req, !.dispatched_to = "replay",
            !.mem = Applied(d.mem, "replay", d.req)]
\* dispatch_debugger_request(*session, dbg, t, *req)
Dispatch(d) ==
  [d EXCEPT !.dispatched = d.req, !.dispatched_to = d.session,
            !.mem = Applied(d.mem, d.session, d.req)]

MutResumeIgnoresDying(d) == [d EXCEPT !.phase = "advance"]
\* if (dbg_is_resume_request(req)): return nullptr when dying, else t
resume_request(d) ==
  IF diversion_dying(d.refcount)
  THEN DivertExit(d)
  ELSE [d EXCEPT !.phase = "advance"]

\* case DREQ_RESTART: return nullptr
restart_request(d) == DivertExit(d)

MutReadSiginfoNoRef(d) ==
  [d EXCEPT !.reply = [type |-> "read_siginfo", bytes |-> [i \in 1 .. d.len |-> 0]]]
\* case DREQ_READ_SIGINFO: diversion_ref(); memset(si_bytes, 0, ...);
\* dbg_reply_read_siginfo(); continue
read_siginfo_request(d) ==
  [d EXCEPT !.refcount = diversion_ref(d.refcount),
            !.reply = [type |-> "read_siginfo", bytes |-> [i \in 1 .. d.len |-> 0]]]

\* case DREQ_WRITE_SIGINFO: diversion_unref(); dbg_reply_write_siginfo();
\* continue
write_siginfo_request(d) ==
  [d EXCEPT !.refcount = diversion_unref(d.refcount),
            !.reply = [type |-> "write_siginfo", bytes |-> <<>>]]

MutBreakAlwaysDispatched(d) == Dispatch(d)
\* the breakpoint and watchpoint cases: return nullptr when dying, else
\* break to the dispatch
break_request(d) ==
  IF diversion_dying(d.refcount) THEN DivertExit(d) ELSE Dispatch(d)

\* one round of the loop of process_debugger_requests, up to its return to
\* divert()
process_debugger_requests(d0, req, tid, len) ==
  LET d == [d0 EXCEPT !.req = req, !.dispatched = "none",
                      !.dispatched_to = "none",
                      !.reply = [type |-> "none", bytes |-> <<>>],
                      !.len = IF req = "DREQ_READ_SIGINFO" THEN len ELSE 0,
                      !.target = IF req = "DREQ_SET_QUERY_THREAD" THEN tid ELSE 0]
  IN
  IF dbg_is_resume_request(req)
  THEN resume_request(d)
  ELSE CASE req = "DREQ_RESTART" -> restart_request(d)
         [] req = "DREQ_READ_SIGINFO" -> read_siginfo_request(d)
         [] req = "DREQ_SET_QUERY_THREAD" ->
              LET next_task == find_task(tid) IN
                Dispatch([d EXCEPT !.t = IF next_task # NoTask THEN next_task ELSE d.t])
         [] req = "DREQ_WRITE_SIGINFO" -> write_siginfo_request(d)
         [] req \in BreakRequests -> break_request(d)
         [] OTHER -> Dispatch(d)

\* the fields of a request its type gives a meaning to
ReqTids(req) == IF req = "DREQ_SET_QUERY_THREAD" THEN TargetTids ELSE {0}
ReqLens(req) == IF req = "DREQ_READ_SIGINFO" THEN SiginfoLens ELSE {0}

\* the debugger sends a request
DbgRequest(req, tid, len) ==
  /\ dv.phase = "requests"
  /\ req = "DREQ_READ_SIGINFO" => dv.refcount < MaxRefs
  /\ req = "DREQ_WRITE_SIGINFO" => dv.refcount > -MaxRefs
  /\ dv' = process_debugger_requests(dv, req, tid, len)
  /\ UNCHANGED <<shim_vars, sched, rr, proc>>

Blacklist ==
  {SYS_ipc, SYS_kill, SYS_rt_sigqueueinfo, SYS_rt_tgsigqueueinfo, SYS_tgkill,
   SYS_tkill}
MutTkillNotBlacklisted(syscallno, is_desched_event_syscall) ==
  IF syscallno = SYS_ioctl /\ is_desched_event_syscall THEN "emulate"
  ELSE IF syscallno \in Blacklist \ {SYS_tkill} THEN "skip"
  ELSE "execute"
\* the switch of process_syscall
process_syscall(syscallno, is_desched_event_syscall) ==
  IF syscallno = SYS_ioctl /\ is_desched_event_syscall THEN "emulate"
  ELSE IF syscallno \in Blacklist THEN "skip"
  ELSE "execute"

MutFinishKeepsResult(d, ret) == [d EXCEPT !.emu_finished = TRUE]
finish_emulated_syscall_with_ret(d, ret) ==
  [d EXCEPT !.regs.syscall_result = ret, !.emu_finished = TRUE]

\* execute_syscall: the syscall of t's registers is made in the tracee
\* against the kernel, which answers kres
execute_syscall(d, kres) ==
  [d EXCEPT !.emu_finished = TRUE,
            !.live = [no |-> d.regs.original_syscallno, args |-> d.regs.args,
                      tid |-> d.t],
            !.kres = kres,
            !.regs.syscall_result = kres]

MutContPlain(req) ==
  CASE req = "DREQ_CONTINUE" -> "cont"
    [] req = "DREQ_STEP" -> "cont_singlestep"
    [] OTHER -> "fatal"
\* Task::cont_sysemu / cont_sysemu_singlestep, by the request type
ResumeMode(req) ==
  CASE req = "DREQ_CONTINUE" -> "cont_sysemu"
    [] req = "DREQ_STEP" -> "cont_sysemu_singlestep"
    [] OTHER -> "fatal"

\* advance(): assert(!t->child_sig), which aborts the tracer when it fails,
\* before the tracee is resumed
Advance(resumed) ==
  IF dv.child_sig # 0 THEN [dv EXCEPT !.phase = "assert_failed"] ELSE resumed

\* advance(): the resumed tracee stops at the entry of a syscall
AdvanceToSyscall(no, args, is_desched, kres) ==
  /\ dv.phase = "advance"
  /\ is_desched => no = SYS_ioctl
  /\ LET d == [dv EXCEPT !.phase = "requests", !.resumed = ResumeMode(dv.req),
                         !.stop = "syscall", !.stopped = dv.t,
                         !.desched = is_desched,
                         !.regs = [original_syscallno |-> no, args |-> args,
                                   syscall_result |-> -ENOSYS],
                         !.live = NoLive, !.kres = 0, !.emu_finished = FALSE,
                         !.notified = NoStop,
                         !.pending_sig = 0, !.bkpt_user = FALSE,
                         !.mem = TraceeRan(dv.mem, dv.session)]
         what == process_syscall(no, is_desched)
     IN dv' = Advance(CASE what = "emulate" ->
                             finish_emulated_syscall_with_ret(d, 0)
                        [] what = "skip" -> d
                        [] OTHER -> execute_syscall(d, kres))
  /\ UNCHANGED <<shim_vars, sched, rr, proc>>

MutReportPending(sig, bkpt_user) == sig
\* the signal divert() reports to the debugger
StopSignal(sig, bkpt_user) ==
  IF sig # SIGTRAP /\ bkpt_user THEN SIGTRAP ELSE sig

\* advance(): the resumed tracee stops with a signal pending; divert()
\* notifies the debugger
AdvanceToSignal(sig, bkpt_user) ==
  /\ dv.phase = "advance"
  /\ dv' = Advance(
       [dv EXCEPT !.phase = "requests", !.resumed = ResumeMode(dv.req),
                  !.stop = "signal", !.stopped = dv.t, !.desched = FALSE,
                  !.regs = NoRegs,
                  !.live = NoLive, !.kres = 0, !.emu_finished = FALSE,
                  !.pending_sig = sig, !.bkpt_user = bkpt_user,
                  !.mem = TraceeRan(dv.mem, dv.session),
                  !.notified = [pid |-> Tgid(dv.t), tid |-> RecTid(dv.t),
                                sig |-> StopSignal(sig, bkpt_user)]])
  /\ UNCHANGED <<shim_vars, sched, rr, proc>>

DivertNext ==
  \/ \E req \in Requests : \E tid \in ReqTids(req), len \in ReqLens(req) :
        DbgRequest(req, tid, len)
  \/ \E no \in DivSyscalls, args \in DivArgs, is_desched \in BOOLEAN,
        kres \in {0, -EINTR} : AdvanceToSyscall(no, args, is_desched, kres)
  \/ \E sig \in {SIGTRAP, SIGSEGV}, bkpt_user \in BOOLEAN :
        AdvanceToSignal(sig, bkpt_user)

DivertSpec == DivertInit /\ [][DivertNext]_vars


(***************************************************************************)
(* The tracer loop of a recording: the scheduler resumes one task, the     *)
(* task runs to its next stop, the stop is recorded as a frame.            *)
(***************************************************************************)
\* the scheduler resumes a task only when no task holds the CPU
MutResumeAlways(s) == TRUE
CanResume(s) == s.cur = NoTid

ScResume ==
  /\ CanResume(sched)
  /\ PickNext(sched) # NoTid
  /\ LET t == PickNext(sched) IN
       sched' = Track(sched, [sched EXCEPT !.st[t] = "RUNNING", !.cur = t,
                                           !.resumes = Append(@, t)])
  /\ UNCHANGED <<shim_vars, dv, rr, proc>>

Holds(t) == sched.cur = t /\ sched.st[t] = "RUNNING" /\ t \notin sched.dying

\* (a) a ptrace stop of interest: the entry of a traced syscall
SyscallEntry(t, no) ==
  /\ Holds(t) /\ sched.sys[t] = "none"
  /\ is_exit(no) \/ Len(sched.trace) < MaxFrames
  /\ no = "clone" => \E c \in Tids : sched.st[c] = "UNBORN"
  /\ sched' = Track(sched,
       [WriteFrame(sched, t, "SYSCALL_enter", no, 0)
          EXCEPT !.st[t] = "AT_SYSCALL_ENTRY", !.sys[t] = "entered",
                 !.no[t] = no, !.cur = NoTid])
  /\ UNCHANGED <<shim_vars, dv, rr, proc>>

\* the exit of a syscall is recorded with what the syscall produced
MutForgetWokenExit(s, t, data) ==
  IF s.sys[t] = "woken" THEN s
  ELSE WriteFrame(s, t, "SYSCALL_exit", s.no[t], data)
record_syscall_exit(s, t, data) ==
  WriteFrame(s, t, "SYSCALL_exit", s.no[t], data)

\* the syscall completes: write produces output, clone a task of some
\* priority, which arrives at the tail
SyscallExit(t, c, pr) ==
  /\ Holds(t) /\ sched.sys[t] \in {"entered", "woken"}
  /\ ~is_exit(sched.no[t])
  /\ IF sched.no[t] = "clone"
     THEN /\ c \in Tids
          /\ sched.st[c] = "UNBORN"
          /\ \A u \in Tids : sched.st[u] = "UNBORN" => c <= u
     ELSE c = NoTid /\ pr = 0
  /\ LET no == sched.no[t]
         data == CASE no = "clone" -> c [] no = "write" -> t [] OTHER -> 0
         s1 == [record_syscall_exit(sched, t, data)
                  EXCEPT !.st[t] = "AT_SYSCALL_EXIT", !.sys[t] = "none",
                         !.no[t] = "none", !.cur = NoTid,
                         !.out = IF no = "write" THEN Append(@, t) ELSE @]
     IN sched' = Track(sched,
          IF no = "clone"
          THEN [s1 EXCEPT !.st[c] = "RUNNABLE", !.prio[c] = pr,
                          !.q = Append(@, c)]
          ELSE s1)
  /\ UNCHANGED <<shim_vars, dv, rr, proc>>

\* (b) the timeslice expires
Preempt(t) ==
  /\ Holds(t) /\ sched.sys[t] = "none"
  /\ Len(sched.trace) < MaxFrames
  /\ sched' = Track(sched,
       [WriteFrame(sched, t, "SCHED", "none", 0)
          EXCEPT !.st[t] = "RUNNABLE", !.q = ToTail(@, t),
                 !.win = Append(@, t), !.cur = NoTid])
  /\ UNCHANGED <<shim_vars, dv, rr, proc>>

\* (c), (d) the task blocks in a may-block syscall and its desched event
\* fires: the tracer treats it as blocked and switches
Desched(t) ==
  /\ Holds(t) /\ sched.sys[t] = "entered" /\ may_block(sched.no[t])
  /\ sched' = Track(sched, [sched EXCEPT !.st[t] = "AT_SYSCALL_ENTRY",
                                         !.sys[t] = "blocked", !.cur = NoTid])
  /\ UNCHANGED <<shim_vars, dv, rr, proc>>

\* the kernel finishes the blocked syscall
Wake(t) ==
  /\ sched.sys[t] = "blocked" /\ t \notin sched.dying
  /\ sched' = Track(sched, [sched EXCEPT !.sys[t] = "woken"])
  /\ UNCHANGED <<shim_vars, dv, rr, proc>>

Alive(s) == {t \in Tids : s.st[t] \notin {"UNBORN", "EXITED"}}

\* the tasks an exit_group of t kills
Killed(s, t) == Alive(s) \ {t}

\* the task exits inside exit or exit_group
TaskExit(t) ==
  /\ Holds(t) /\ sched.sys[t] = "entered" /\ is_exit(sched.no[t])
  /\ sched' = Track(sched,
       [WriteFrame(sched, t, "EXIT", "none", 0)
          EXCEPT !.st[t] = "EXITED", !.q = Without(@, t), !.cur = NoTid,
                 !.sys[t] = "none", !.no[t] = "none",
                 !.dying = IF sched.no[t] = "exit_group"
                           THEN Killed(sched, t) ELSE @])
  /\ UNCHANGED <<shim_vars, dv, rr, proc>>

\* a task killed by another task's exit_group is seen exiting; its frame
\* names the syscall it died in and says whether it was blocked there
ReapExit(t) ==
  /\ sched.cur = t /\ sched.st[t] = "RUNNING" /\ t \in sched.dying
  /\ sched' = Track(sched,
       [WriteFrame(sched, t, "UNSTABLE_EXIT", sched.no[t],
                   IF sched.sys[t] = "blocked" THEN 1 ELSE 0)
          EXCEPT !.st[t] = "EXITED", !.q = Without(@, t), !.cur = NoTid,
                 !.sys[t] = "none", !.no[t] = "none",
                 !.dying = @ \ {t}])
  /\ UNCHANGED <<shim_vars, dv, rr, proc>>

SchedNext ==
  \/ ScResume
  \/ \E t \in Tids, no \in RecSyscalls : SyscallEntry(t, no)
  \/ \E t \in Tids, c \in Tids \cup {NoTid}, pr \in Prios : SyscallExit(t, c, pr)
  \/ \E t \in Tids : Preempt(t)
  \/ \E t \in Tids : Desched(t)
  \/ \E t \in Tids : Wake(t)
  \/ \E t \in Tids : TaskExit(t)
  \/ \E t \in Tids : ReapExit(t)

SchedSpec == Init /\ [][SchedNext]_vars

\* the tracer never stops taking steps while it has one to take
LiveSchedSpec == SchedSpec /\ WF_vars(SchedNext)

\* the replay driver: reads the frames in order, each for a task that
\* exists at that point, and emits what the recorded writes produced
RECURSIVE Replay(_, _, _)
Replay(tr, alive, o) ==
  IF tr = <<>>
  THEN [status |-> IF alive = {} THEN "done" ELSE "open", out |-> o]
  ELSE LET f == Head(tr) IN
    IF f.tid \notin alive THEN [status |-> "diverged", out |-> o]
    ELSE CASE f.event = "SYSCALL_exit" /\ f.no = "clone" ->
                Replay(Tail(tr), alive \cup {f.data}, o)
           [] f.event = "SYSCALL_exit" /\ f.no = "write" ->
                Replay(Tail(tr), alive, Append(o, f.data))
           [] f.event \in {"EXIT", "UNSTABLE_EXIT"} ->
                Replay(Tail(tr), alive \ {f.tid}, o)
           [] OTHER -> Replay(Tail(tr), alive, o)

(***************************************************************************)
(* Recording the program and replaying the trace.  The kernel, the tracer  *)
(* and the replay driver are the environment of the test program.          *)
(***************************************************************************)
TopA(k) == k.stack[Len(k.stack)]
SetTopA(k, a) == [k EXCEPT !.stack[Len(k.stack)] = a]
Op(a) == Prog(a.fn)[a.pc]
UserOps == {"assert_intr", "assert_rem", "assert_fin", "assert_untouched"}
NonBlocking ==
  {"puts", "pthread_create", "kill_SIGUSR1", "kill_SIGUSR2", "pthread_join",
   "gettimeofday"}
OtherTid(t) == IF t = "M" THEN "R" ELSE "M"

\* the registers of a task: where it is, the result register, the flags
Regs(k) ==
  LET a == TopA(k) IN
  [ip |-> <<a.fn, a.pc, a.sys>>,
   ax |-> IF a.sys = "returned" THEN a.kret ELSE a.ret,
   flags |-> k.flags]
NoRegisters == [ip |-> <<"none", 0, "none">>, ax |-> 0, flags |-> 0]

\* the conditions of the test_assert lines
AssertCond(k) ==
  LET a == TopA(k) IN
  CASE Op(a) = "assert_intr" -> -1 = a.ret /\ EINTR = k.errno
    [] Op(a) = "assert_rem" -> a.rem > 0
    [] Op(a) = "assert_fin" -> 0 = a.ret
    [] Op(a) = "assert_untouched" -> -1 = a.rem

AtUser(k) ==
  k.st = "run" /\ (TopA(k).sys = "returned" \/ Op(TopA(k)) \in UserOps)
AtSyscall(k, ops) ==
  k.st = "run" /\ TopA(k).sys = "none" /\ Op(TopA(k)) \in ops
\* the kernel delivers a pending signal that is not masked before the task
\* runs on
Deliverable(k) == k.st \in {"run", "blocked"} /\ k.pend \ k.mask # {}

\* one step of the program's own code: libc's return from a syscall, which
\* sets errno, or a test_assert, which ends the process when it fails
UserStep(k) ==
  LET a == TopA(k) IN
  IF a.sys = "returned"
  THEN LET u == update_errno_ret(a.kret) IN
       [SetTopA(k, [a EXCEPT !.ret = u.ret, !.sys = "none", !.pc = @ + 1])
          EXCEPT !.errno = IF u.set THEN u.errno ELSE @]
  ELSE IF AssertCond(k)
       THEN [SetTopA(k, [a EXCEPT !.pc = @ + 1]) EXCEPT !.flags = 1]
       ELSE [SetTopA(k, Activation("test_assert_failed", "none")) EXCEPT !.flags = 0]

\* what a nanosleep call gave its caller
SleepReturns(k) == TopA(k).sys = "returned" /\ Op(TopA(k)) = "nanosleep"
SleepEntry(k) ==
  LET a == TopA(k) IN
  [fn |-> a.fn, hit |-> a.hit, ret |-> TopA(UserStep(k)).ret,
   errno |-> UserStep(k).errno, rem |-> a.rem, entered |-> a.entered]
Logged(sleeps, k) ==
  IF SleepReturns(k) THEN Append(sleeps, SleepEntry(k)) ELSE sleeps

\* the task inside a syscall
Entered(k) ==
  SetTopA(k, [TopA(k) EXCEPT
    !.sys = "entered",
    !.entered = IF Op(TopA(k)) = "nanosleep" THEN @ + 1 ELSE @])

\* the task when its syscall returns kret and the outparam bytes `data'
SysReturn(k, kret, data) ==
  LET a == TopA(k) IN
  CASE Op(a) = "nanosleep" ->
         [SetTopA(k, [a EXCEPT !.kret = kret, !.sys = "returned",
                               !.rem = IF data # <<>> THEN data[1] ELSE @])
            EXCEPT !.st = "run"]
    [] Op(a) = "gettimeofday" ->
         [SetTopA(k, [a EXCEPT !.kret = kret, !.sys = "returned"])
            EXCEPT !.ts = IF data # <<>> THEN data[1] ELSE @]
    [] OTHER -> SetTopA(k, [a EXCEPT !.sys = "none", !.pc = @ + 1])

MutWrapperNoCopy(k, rec) ==
  SetTopA(k, [TopA(k) EXCEPT !.ret = rec.ret, !.pc = @ + 1])
\* the buffered gettimeofday: memcpy(tp, tp2, ...) from the record, return ret
WrapperReturn(k, rec) ==
  [SetTopA(k, [TopA(k) EXCEPT !.ret = rec.ret, !.pc = @ + 1]) EXCEPT !.ts = rec.pay]

\* a signal handler is entered, the handled signal masked, the flags of
\* the interrupted code saved in the signal frame
EnterHandler(k, sig) ==
  [k EXCEPT !.stack = Append(@, [Activation(Handler(sig), sig) EXCEPT !.saved = k.flags]),
            !.pend = @ \ {sig}, !.mask = @ \cup {sig}]
\* sigreturn: back to the interrupted code and its flags
LeaveHandler(k) ==
  [k EXCEPT !.stack = SubSeq(@, 1, Len(@) - 1), !.mask = @ \ {TopA(k).sig},
            !.flags = TopA(k).saved]

\* trace frames; a flush frame has the ring's records and no registers
Frame(t, ev, no, k, ret, data) ==
  [tid |-> t, event |-> ev, no |-> no, regs |-> Regs(k), key |-> NoRegisters,
   ret |-> ret, data |-> data]
FlushFrame(t, k) ==
  [tid |-> t, event |-> "SYSCALLBUF_FLUSH", no |-> "none", regs |-> NoRegisters,
   key |-> NoRegisters, ret |-> 0, data |-> k.ring]
\* the tracer flushes a task's ring before it writes another frame for it
WithFlush(t, k, frames) ==
  IF k.ring = <<>> THEN frames ELSE <<FlushFrame(t, k)>> \o frames
Drained(k) == [k EXCEPT !.ring = <<>>]

RecUser(t) ==
  /\ rr.phase = "record"
  /\ ~Deliverable(rr.tk[t])
  /\ AtUser(rr.tk[t])
  /\ rr' = [rr EXCEPT !.tk[t] = UserStep(@), !.sleeps = Logged(@, rr.tk[t])]
  /\ UNCHANGED <<shim_vars, dv, sched, proc>>

\* gettimeofday(&ts, NULL) with the syscall buffer: no trap, no frame
RecBuffered(t) ==
  /\ rr.phase = "record"
  /\ ~Deliverable(rr.tk[t])
  /\ rr.buffering
  /\ AtSyscall(rr.tk[t], {"gettimeofday"})
  /\ \E v \in Times :
       LET rec == [no |-> "gettimeofday", ret |-> 0, pay |-> v] IN
       rr' = [rr EXCEPT !.tk[t] = WrapperReturn([@ EXCEPT !.ring = Append(@, rec)], rec)]
  /\ UNCHANGED <<shim_vars, dv, sched, proc>>

\* a traced syscall that does not block: enter and exit frames
RecSyscall(t) ==
  /\ rr.phase = "record"
  /\ ~Deliverable(rr.tk[t])
  /\ AtSyscall(rr.tk[t], NonBlocking)
  /\ LET k == rr.tk[t]
         op == Op(TopA(k))
     IN /\ op = "gettimeofday" => ~rr.buffering
        /\ op = "pthread_join" => rr.tk["R"].st = "exited"
        /\ \E v \in (IF op = "gettimeofday" THEN Times ELSE {0}) :
             LET ke == Entered(Drained(k))
                 data == CASE op = "gettimeofday" -> <<v>>
                           [] op = "puts" -> <<PutsText(TopA(k))>>
                           [] OTHER -> <<>>
                 kx == SysReturn(ke, 0, data)
                 tk1 == [rr.tk EXCEPT ![t] = kx]
                 tk2 == CASE op = "pthread_create" -> [tk1 EXCEPT !["R"].st = "run"]
                          [] op \in {"kill_SIGUSR1", "kill_SIGUSR2"}
                               /\ tk1["R"].st # "exited" ->
                               [tk1 EXCEPT !["R"].pend =
                                  @ \cup {IF op = "kill_SIGUSR1" THEN "SIGUSR1"
                                          ELSE "SIGUSR2"}]
                          [] OTHER -> tk1
             IN rr' = [rr EXCEPT
                  !.tk = tk2,
                  !.trace = @ \o WithFlush(t, k,
                     <<Frame(t, "SYSCALL_enter", op, ke, 0, <<>>),
                       Frame(t, "SYSCALL_exit", op, kx, 0, data)>>),
                  !.out = IF op = "puts" THEN Append(@, PutsText(TopA(k))) ELSE @]
  /\ UNCHANGED <<shim_vars, dv, sched, proc>>

RecNanosleepEnter(t) ==
  /\ rr.phase = "record"
  /\ ~Deliverable(rr.tk[t])
  /\ AtSyscall(rr.tk[t], {"nanosleep"})
  /\ LET k == rr.tk[t]
         ke == [Entered(Drained(k)) EXCEPT !.st = "blocked"]
     IN rr' = [rr EXCEPT
          !.tk[t] = ke,
          !.trace = @ \o WithFlush(t, k,
             <<Frame(t, "SYSCALL_enter", "nanosleep", ke, 0, <<>>)>>)]
  /\ UNCHANGED <<shim_vars, dv, sched, proc>>

\* the sleep runs to completion: 0, rem not written
RecTimerExpires(t) ==
  /\ rr.phase = "record"
  /\ ~Deliverable(rr.tk[t])
  /\ rr.tk[t].st = "blocked"
  /\ LET kx == SysReturn(rr.tk[t], 0, <<>>) IN
     rr' = [rr EXCEPT
          !.tk[t] = kx,
          !.trace = Append(@, Frame(t, "SYSCALL_exit", "nanosleep", kx, 0, <<>>))]
  /\ UNCHANGED <<shim_vars, dv, sched, proc>>

\* a pending signal is delivered; a task blocked in nanosleep leaves it with
\* -EINTR and the remaining time in rem (the handlers have no SA_RESTART)
RecSignal(t, sig) ==
  /\ rr.phase = "record"
  /\ rr.tk[t].st \in {"run", "blocked"}
  /\ sig \in rr.tk[t].pend \ rr.tk[t].mask
  /\ LET k == rr.tk[t]
         blocked == k.st = "blocked"
     IN \E r \in (IF blocked THEN Remaining ELSE {0}) :
          LET k1 == IF blocked
                    THEN SysReturn(SetTopA(k, [TopA(k) EXCEPT !.hit = TRUE]),
                                   -EINTR, <<r>>)
                    ELSE Drained(k)
              k2 == EnterHandler(k1, sig)
          IN rr' = [rr EXCEPT
               !.tk[t] = k2,
               !.trace = @ \o WithFlush(t, k,
                  (IF blocked
                   THEN <<Frame(t, "SYSCALL_exit", "nanosleep", k1, -EINTR, <<r>>)>>
                   ELSE <<>>)
                  \o <<[Frame(t, "SIGNAL", sig, k2, 0, <<>>) EXCEPT !.key = Regs(k1)]>>)]
  /\ UNCHANGED <<shim_vars, dv, sched, proc>>

RecSigreturn(t) ==
  /\ rr.phase = "record"
  /\ ~Deliverable(rr.tk[t])
  /\ AtSyscall(rr.tk[t], {"sigreturn"})
  /\ LET k == rr.tk[t]
         kx == LeaveHandler(Drained(k))
     IN rr' = [rr EXCEPT
          !.tk[t] = kx,
          !.trace = @ \o WithFlush(t, k,
             <<Frame(t, "SYSCALL_enter", "sigreturn", kx, 0, <<>>)>>)]
  /\ UNCHANGED <<shim_vars, dv, sched, proc>>

\* exit ends the thread, exit_group every task of the process
RecExit(t) ==
  /\ rr.phase = "record"
  /\ ~Deliverable(rr.tk[t])
  /\ AtSyscall(rr.tk[t], {"exit", "exit_group"})
  /\ LET k == rr.tk[t]
         op == Op(TopA(k))
         o == OtherTid(t)
         ke == [Entered(Drained(k)) EXCEPT !.st = "exited"]
         both == op = "exit_group" /\ rr.tk[o].st \in {"run", "blocked"}
         ko == [rr.tk[o] EXCEPT !.st = IF both THEN "exited" ELSE @]
     IN rr' = [rr EXCEPT
          !.tk = [u \in RTids |-> IF u = t THEN ke ELSE ko],
          !.trace = @ \o WithFlush(t, k,
             <<Frame(t, "SYSCALL_enter", op, ke, 0, <<>>),
               Frame(t, "EXIT", op, ke, 0, <<>>)>>
             \o (IF both THEN <<Frame(o, "EXIT", "none", ko, 0, <<>>)>> ELSE <<>>))]
  /\ UNCHANGED <<shim_vars, dv, sched, proc>>

\* the recording is over: the trace is replayed on a fresh process
StartReplay ==
  /\ rr.phase = "record"
  /\ \A t \in RTids : rr.tk[t].st = "exited"
  /\ rr' = [rr EXCEPT
       !.phase = "replay",
       !.rec = [tk |-> rr.tk, out |-> rr.out, sleeps |-> rr.sleeps],
       !.tk = TraceeInit, !.out = <<>>, !.sleeps = <<>>, !.ri = 1, !.seen = <<>>]
  /\ UNCHANGED <<shim_vars, dv, sched, proc>>

MutReturnZero(f) == 0
\* the driver sets the return value of the frame
replay_return_value(f) == f.ret
\* the driver writes the outparams of the frame's payload into tracee memory
replay_outparams(f) == f.data
\* the driver refills the ring with the records of a flush frame
refill_buffer(f) == f.data

\* the frame the driver is at, and its task
NextFrame == rr.trace[rr.ri]
Replaying == rr.phase = "replay" /\ rr.ri <= Len(rr.trace)
\* the task has reached the point an asynchronous signal was recorded at
AtSignalPoint(k, f) == f.event = "SIGNAL" /\ Regs(k) = f.key

\* the driver steps the frame's task through its own code
ReplayUser ==
  /\ Replaying
  /\ LET t == NextFrame.tid
         k == rr.tk[t]
     IN /\ AtUser(k)
        /\ ~AtSignalPoint(k, NextFrame)
        /\ rr' = [rr EXCEPT !.tk[t] = UserStep(@), !.sleeps = Logged(@, k)]
  /\ UNCHANGED <<shim_vars, dv, sched, proc>>

\* a buffered syscall is emulated; the wrapper restores the caller's data
\* from the refilled ring
ReplayBuffered ==
  /\ Replaying
  /\ rr.buffering
  /\ LET t == NextFrame.tid
         k == rr.tk[t]
     IN /\ AtSyscall(k, {"gettimeofday"})
        /\ k.ring # <<>>
        /\ rr' = [rr EXCEPT !.tk[t] = WrapperReturn([k EXCEPT !.ring = Tail(@)], Head(k.ring))]
  /\ UNCHANGED <<shim_vars, dv, sched, proc>>

\* the frame is the task's next event
Matches(k, f) ==
  LET a == TopA(k) IN
  CASE f.event = "SYSCALLBUF_FLUSH" ->
         rr.buffering /\ AtSyscall(k, {"gettimeofday"}) /\ k.ring = <<>>
    [] f.event = "SYSCALL_enter" ->
         /\ k.st = "run" /\ a.sys = "none" /\ Op(a) = f.no
         /\ ~(rr.buffering /\ f.no = "gettimeofday")
    [] f.event = "SYSCALL_exit" ->
         k.st \in {"run", "blocked"} /\ a.sys = "entered" /\ Op(a) = f.no
    [] f.event = "SIGNAL" -> k.st = "run" /\ Regs(k) = f.key
    [] f.event = "EXIT" -> k.st \in {"run", "blocked"}

\* the task after the driver has applied the frame
ApplyFrame(k, f) ==
  CASE f.event = "SYSCALLBUF_FLUSH" -> [k EXCEPT !.ring = refill_buffer(f)]
    [] f.event = "SYSCALL_enter" ->
         IF f.no = "sigreturn" THEN LeaveHandler(k)
         ELSE [Entered(k) EXCEPT !.st = IF f.no = "nanosleep" THEN "blocked" ELSE @]
    [] f.event = "SYSCALL_exit" ->
         SysReturn(k, replay_return_value(f), replay_outparams(f))
    [] f.event = "SIGNAL" -> EnterHandler(k, f.no)
    [] f.event = "EXIT" -> [k EXCEPT !.st = "exited"]

\* the driver applies the next frame and compares the registers; a frame
\* that does not fit, or registers that differ, end the replay
ReplayFrame ==
  /\ Replaying
  /\ LET f == NextFrame
         t == f.tid
         k == rr.tk[t]
     IN /\ ~(AtUser(k) /\ ~AtSignalPoint(k, f))
        /\ ~(rr.buffering /\ AtSyscall(k, {"gettimeofday"}) /\ k.ring # <<>>)
        /\ IF Matches(k, f)
              /\ (f.event = "SYSCALLBUF_FLUSH" \/ Regs(ApplyFrame(k, f)) = f.regs)
           THEN LET k2 == ApplyFrame(k, f)
                    tk1 == [rr.tk EXCEPT ![t] = k2]
                    written == f.event = "SYSCALL_exit" /\ f.no = "puts"
                IN rr' = [rr EXCEPT
                     !.tk = IF f.event = "SYSCALL_exit" /\ f.no = "pthread_create"
                            THEN [tk1 EXCEPT !["R"].st = "run"] ELSE tk1,
                     !.out = IF written THEN Append(@, PutsText(TopA(k))) ELSE @,
                     !.seen = Append(@, IF f.event = "SYSCALLBUF_FLUSH" THEN NoRegisters
                                        ELSE Regs(k2)),
                     !.ri = @ + 1]
           ELSE rr' = [rr EXCEPT !.phase = "fatal"]
  /\ UNCHANGED <<shim_vars, dv, sched, proc>>

ReplayDone ==
  /\ rr.phase = "replay"
  /\ rr.ri > Len(rr.trace)
  /\ rr' = [rr EXCEPT !.phase = "done"]
  /\ UNCHANGED <<shim_vars, dv, sched, proc>>

\* the test program's text is loaded at one address in both runs
RecordReplayInit ==
  /\ ShimInit
  /\ \A ep \in EntryPoints : entry_point <= ep
  /\ dv = DvOff
  /\ sched = ScInit
  /\ \E b \in BOOLEAN : rr = [RrOff EXCEPT !.phase = "record", !.buffering = b]
  /\ proc = ProcOff

RecordReplayNext ==
  \/ \E t \in RTids : RecUser(t)
  \/ \E t \in RTids : RecBuffered(t)
  \/ \E t \in RTids : RecSyscall(t)
  \/ \E t \in RTids : RecNanosleepEnter(t)
  \/ \E t \in RTids : RecTimerExpires(t)
  \/ \E t \in RTids, sig \in {"SIGUSR1", "SIGUSR2"} : RecSignal(t, sig)
  \/ \E t \in RTids : RecSigreturn(t)
  \/ \E t \in RTids : RecExit(t)
  \/ StartReplay
  \/ ReplayUser
  \/ ReplayBuffered
  \/ ReplayFrame
  \/ ReplayDone

RecordReplaySpec == RecordReplayInit /\ [][RecordReplayNext]_vars

(***************************************************************************)
(* Properties of the shim.                                                 *)
(***************************************************************************)
Frames == {stack[i] : i \in 1 .. Len(stack)}
\* an invocation entered while the thread's buffer_locked was 1
Inner(f) == f.entry_locked = 1
\* the steps of the shim's own code (the others are the tracer's, the
\* kernel's or the other task's)
ShimStep ==
  \/ PrepSyscall \/ CanBufferSyscall \/ FallbackTraced \/ Return
  \/ ArmDeschedEvent \/ DisarmDeschedEvent \/ CopyOut \/ CommitEnter
  \/ CommitStep \/ CommitUnlock

\* C1: a wrapper entered while buffer_locked is 1 gets NULL from prep_syscall
\* and 0 from can_buffer_syscall without the lock being cleared, makes its
\* syscall through the traced path, and its own steps change neither
\* buffer_locked nor num_rec_bytes: the interrupted invocation still owns
\* the lock.
C1_InnerState ==
  \A f \in Frames : Inner(f) =>
    /\ buffer_locked = 1
    /\ ~f.own
    /\ f.pc \in {"prep", "check", "fallback", "traced_stop", "ret"}
    /\ f.pc # "prep" => f.ptr = PAdd(NULL, Payload1(f) + Payload2(f))
    /\ f.chk \in {"none", "bail"}
    /\ f.recs = 0
    /\ f.pc = "ret" => f.path = "traced" /\ f.pairs = 1
    /\ Len(stack) >= 2 /\ stack[1].own
C1_ReentrantFallsBack ==
  /\ []C1_InnerState
  /\ [][(stack # <<>> /\ Inner(Top) /\ ShimStep)
          => UNCHANGED <<buffer_locked, num_rec_bytes>>]_vars
C1_Witness ==
  /\ Len(stack) = 2
  /\ Inner(Top) /\ Top.pc = "ret" /\ Top.path = "traced"
  /\ stack[1].own /\ buffer_locked = 1

\* C2: every wrapper invocation's syscall is represented exactly once: by
\* one committed ring record or by one enter/exit pair of the tracer, never
\* by both and never by none.
C2_ExactlyOnce ==
  \A f \in Frames :
    /\ f.recs + f.pairs <= 1
    /\ f.pc = "ret" => f.recs + f.pairs = 1
C2_Witness ==
  /\ stack # <<>>
  /\ Top.pc = "ret" /\ Top.path = "buffered" /\ Top.pairs = 1 /\ Top.recs = 0

\* the value of num_rec_bytes when record_start was `start'
NrbAt(start) == PSub(start, PAdd(buffer, SizeofHdr))

\* C3: a commit that finds abort_commit set leaves num_rec_bytes as it was,
\* resets abort_commit and buffer_locked and still returns the syscall's
\* result; a commit that finds it clear appends one record.
C3_AbortCommitDrops ==
  \A f \in Frames : (f.pc = "ret" /\ f.path = "buffered") =>
    /\ buffer_locked = 0
    /\ f.rv = update_errno_ret(f.ret).ret
    /\ f.ab # 0 =>
         /\ num_rec_bytes = NrbAt(f.start)
         /\ abort_commit = 0
         /\ f.recs = 0
    /\ f.ab = 0 =>
         /\ num_rec_bytes = NrbAt(f.start) + stored_record_size(PSub(f.ptr, f.start))
         /\ f.recs = 1
C3_Witness ==
  /\ stack # <<>>
  /\ Top.pc = "ret" /\ Top.path = "buffered" /\ Top.ab = 1

\* the records below offset `off' of the record area are complete
RECURSIVE WalkComplete(_, _)
WalkComplete(off, fuel) ==
  IF off = num_rec_bytes THEN TRUE
  ELSE IF off > num_rec_bytes \/ fuel = 0 THEN FALSE
  ELSE LET w0 == (SizeofHdr + off) \div WordBytes
           w1 == w0 + 1
       IN /\ w1 \in RingIdx
          /\ ring[w0].k = "ret"
          /\ ring[w1].k = "info"
          /\ ring[w1].id = ring[w0].id
          /\ ring[w1].w = {"no", "ds", "sz"}
          /\ ring[w1].sz >= SizeofRecord
          /\ WalkComplete(off + stored_record_size(ring[w1].sz), fuel - 1)

\* C4: num_rec_bytes grows only once the kernel has had the syscall and all
\* header fields of the record are written, so the bytes below num_rec_bytes
\* hold complete records in every state, whenever the tracer stops W.
C4_PrefixComplete == WalkComplete(0, RingWords)
C4_CountAfterBody ==
  /\ []C4_PrefixComplete
  /\ [][num_rec_bytes' > num_rec_bytes =>
          /\ stack # <<>>
          /\ Top.pay
          /\ LET w0 == WordAt(Top.start) IN
             /\ w0 + 1 \in RingIdx
             /\ ring[w0].k = "ret" /\ ring[w0].id = Top.id
             /\ ring[w0 + 1].k = "info" /\ ring[w0 + 1].id = Top.id
             /\ ring[w0 + 1].w = {"no", "ds", "sz"}]_vars
C4_Witness ==
  /\ stack # <<>>
  /\ Top.pc = "traced_stop"
  /\ num_rec_bytes > 0

\* the end of f's record, as an offset into the ring
EndOffset(f) == stored_record_size(PSub(f.ptr, buffer))

\* C5: an invocation that took the lock and whose record would end beyond
\* buffer_end() minus one record header is unlocked by can_buffer_syscall,
\* makes its syscall through the traced path and appends nothing.
C5_RingFullFallsBack ==
  \A f \in Frames :
    (~Inner(f) /\ f.pc \notin {"prep", "check"}
       /\ EndOffset(f) > SYSCALLBUF_BUFFER_SIZE - SizeofRecord) =>
      /\ f.pc \in {"fallback", "traced_stop", "ret"}
      /\ f.chk = "overflow"
      /\ ~f.own /\ buffer_locked = 0
      /\ f.recs = 0
      /\ f.pc = "ret" => f.path = "traced" /\ f.pairs = 1
C5_Witness ==
  /\ stack # <<>>
  /\ Top.pc = "ret" /\ Top.chk = "overflow" /\ Top.path = "traced"

\* the address of the instruction after the shim's `int $0x80'
UntracedIp == SyscallIp(entry_point)
FilterExempt == {SYS_clone, SYS_fork, SYS_restart_syscall}
AllSyscalls ==
  AppSyscalls \cup {SYS_fork, SYS_ioctl, SYS_gettimeofday, SYS_clock_gettime, SYS_tgkill}

\* C6: the installed filter lets a syscall through without a seccomp trap
\* exactly when it is made at the untraced entry point or its number is
\* clone, fork or restart_syscall; every other syscall is trapped and traced.
C6_FilterAllowsIff ==
  is_seccomp_bpf_installed = 1 =>
    /\ \A ip \in AppIps, no \in AllSyscalls :
         LET v == RunFilter(seccomp_filter, 1, 0, ip, no) IN
           /\ v \in {"allow", "trace"}
           /\ v = "allow" <=> (ip = UntracedIp \/ no \in FilterExempt)
    /\ last_sys.how # "none" =>
         (last_sys.how # "seccomp_trace"
            <=> (last_sys.ip = UntracedIp \/ last_sys.no \in FilterExempt))
C6_Witness ==
  /\ is_seccomp_bpf_installed = 1
  /\ last_sys.how = "untraced"
  /\ last_sys.ip = UntracedIp /\ last_sys.no = SYS_kill

\* C7, as the specification states it: the filter's call site and the
\* address published to the tracer are the one address after `int $0x80',
\* and no syscall made at another address completes without a tracer stop.
C7_AsStated ==
  is_seccomp_bpf_installed = 1 =>
    /\ seccomp_filter[1].arg = UntracedIp
    /\ published_ip \in {NULL, UntracedIp}
    /\ last_sys.how = "untraced" => last_sys.ip = UntracedIp

\* C7: the filter's call site and the address published to the tracer are
\* the one address after `int $0x80'; a syscall made at another address
\* completes without a tracer stop only if it is restart_syscall (clone and
\* fork pass the filter and stop the tracee at their ptrace event).
C7_SingleEntryPoint ==
  is_seccomp_bpf_installed = 1 =>
    /\ seccomp_filter[1].op = "ALLOW_SYSCALLS_FROM_CALLSITE"
    /\ seccomp_filter[1].arg = UntracedIp
    /\ published_ip \in {NULL, UntracedIp}
    /\ (stack = <<>> \/ buffer # NULL) => published_ip = UntracedIp
    /\ last_sys.how = "untraced" =>
         (last_sys.ip = UntracedIp \/ last_sys.no = SYS_restart_syscall)
    /\ (last_sys.how = "ptrace_event" /\ last_sys.ip # UntracedIp) =>
         last_sys.no \in {SYS_clone, SYS_fork}
C7_Witness ==
  /\ published_ip = UntracedIp
  /\ last_sys.how = "seccomp_trace"
  /\ last_sys.ip = SyscallIp(LibcSyscallInsn(entry_point))
  /\ last_sys.no = SYS_nanosleep

\* C8: the desched counter is created disabled with sample period 1; it is
\* enabled only by a may-block invocation that holds the lock and passed the
\* space check, from before its untraced syscall until its disarm, which
\* precedes the outparam copy and the commit; it is disabled whenever a
\* wrapper returns and throughout wrappers that cannot block.
C8_ArmedWindow ==
  /\ desched.open => desched.sample_period = 1
  /\ desched.enabled =>
       /\ desched.open
       /\ Len(stack) = 1
       /\ MayBlock(Top.fn)
       /\ Top.pc \in {"syscall", "blocked", "disarm"}
       /\ Top.own /\ Top.chk = "ok" /\ buffer_locked = 1
  /\ \A f \in Frames :
       /\ (MayBlock(f.fn) /\ f.pc = "syscall") => desched.enabled
       /\ f.pc \in {"copy", "commit", "fields", "unlock", "ret"} => ~desched.enabled
       /\ ~MayBlock(f.fn) => ~desched.enabled
  /\ stack = <<>> => ~desched.enabled
C8_Witness ==
  /\ desched.enabled
  /\ stack # <<>> /\ Top.pc = "disarm" /\ Top.pay

(***************************************************************************)
(* The tracer's scheduling of a descheduled task.                          *)
(***************************************************************************)
\* the tracer handles a stop it is told of, the other task runs when it is
\* scheduled, and the kernel completes a syscall that can complete
LiveSpec ==
  /\ Spec
  /\ WF_vars(TracerDeschedStop)
  /\ WF_vars(ReaderRun)
  /\ WF_vars(DeschedSyscallDone)

Blocked == stack # <<>> /\ Top.pc = "blocked"

AtSyscallHandled == dv.phase = "requests" /\ dv.stop = "syscall"

\* C10: in a diversion a syscall whose number is kill, tgkill, tkill, ipc,
\* rt_sigqueueinfo or rt_tgsigqueueinfo is never made against the kernel;
\* every other syscall but the desched ioctl is made against the kernel with
\* the number and arguments of the tracee's registers, and the kernel's
\* result is left in the tracee's result register.
C10_BlacklistNeverLive ==
  /\ dv.live # NoLive => dv.live.no \notin Blacklist
  /\ AtSyscallHandled =>
       LET no == dv.regs.original_syscallno IN
         /\ no \in Blacklist => dv.live = NoLive
         /\ (no \notin Blacklist /\ ~(no = SYS_ioctl /\ dv.desched)) =>
              /\ dv.live = [no |-> no, args |-> dv.regs.args, tid |-> dv.stopped]
              /\ dv.regs.syscall_result = dv.kres
C10_Witness ==
  /\ AtSyscallHandled
  /\ dv.regs.original_syscallno = SYS_nanosleep
  /\ dv.live.no = SYS_nanosleep
  /\ dv.regs.syscall_result = -EINTR
  /\ dv.refcount = 2

\* C11, as the specification states it: once process_syscall has handled a
\* blacklisted syscall, the emulated syscall is finished and the tracee's
\* result register holds a success value.
C11_BlacklistReturnsSuccess ==
  (AtSyscallHandled /\ dv.regs.original_syscallno \in Blacklist) =>
    /\ dv.emu_finished
    /\ dv.regs.syscall_result >= 0

\* C12: in a diversion the desched ioctl is not made against the kernel, its
\* emulated syscall is finished and the tracee sees 0, which the shim's arm
\* and disarm accept; any other ioctl is made against the kernel like every
\* other syscall.
C12_DeschedIoctlEmulated ==
  (AtSyscallHandled /\ dv.regs.original_syscallno = SYS_ioctl) =>
    IF dv.desched
    THEN /\ dv.live = NoLive
         /\ dv.emu_finished
         /\ dv.regs.syscall_result = 0
         /\ ~desched_ioctl_fatal(dv.regs.syscall_result)
    ELSE /\ dv.live = [no |-> SYS_ioctl, args |-> dv.regs.args, tid |-> dv.stopped]
         /\ dv.emu_finished
         /\ dv.regs.syscall_result = dv.kres
C12_Witness ==
  /\ AtSyscallHandled
  /\ dv.regs.original_syscallno = SYS_ioctl /\ dv.desched
  /\ dv.regs.syscall_result = 0 /\ dv.emu_finished

\* a step of the request loop that takes request `req' from the debugger
Takes(req) == dv.phase = "requests" /\ dv' # dv /\ dv'.req = req
DivertEnded == dv.phase \in {"done", "assert_failed"}
\* no tracee was resumed in this step
NothingResumed ==
  /\ dv'.resumed = dv.resumed /\ dv'.stop = dv.stop /\ dv'.stopped = dv.stopped
  /\ dv'.live = dv.live /\ dv'.regs = dv.regs /\ dv'.mem = dv.mem

\* C13: a continue or step request taken while the reference count is zero
\* ends the diversion and resumes no tracee; taken while the count is above
\* zero it advances the selected task, and the diversion goes on with the
\* next request.
C13_ResumeEndsWhenDying ==
  /\ [][\A req \in {"DREQ_CONTINUE", "DREQ_STEP"} : Takes(req) =>
          /\ dv.refcount = 0 =>
               /\ dv'.phase = "done" /\ dv'.session = "null"
               /\ NothingResumed
          /\ dv.refcount > 0 =>
               /\ dv'.phase = "advance" /\ dv'.t = dv.t
               /\ dv'.session = "diversion"]_vars
  /\ [][dv.phase = "advance" =>
          /\ dv.refcount # 0
          /\ dv'.phase = "requests" /\ dv'.session = "diversion"
          /\ dv'.stopped = dv.t
          /\ dv'.refcount = dv.refcount]_vars
  /\ [][DivertEnded => dv' = dv]_vars
C13_Witness ==
  /\ dv.phase = "done"
  /\ dv.req = "DREQ_STEP" /\ dv.refcount = 0
  /\ dv.stop = "syscall"

\* C14: a restart request ends the diversion at once for every reference
\* count: divert() returns with the session discarded, the request is not
\* dispatched, no tracee is advanced, the count and the selected task are as
\* before and the request is the one left in the caller's slot.
C14_RestartEndsDiversion ==
  /\ [][Takes("DREQ_RESTART") =>
          /\ dv'.phase = "done" /\ dv'.session = "null"
          /\ dv'.dispatched = "none" /\ dv'.dispatched_to = "none"
          /\ dv'.refcount = dv.refcount /\ dv'.t = dv.t
          /\ NothingResumed]_vars
  /\ [](DivertEnded /\ dv.req = "DREQ_RESTART" => dv.dispatched = "none")
  /\ [][(DivertEnded /\ dv.req = "DREQ_RESTART") => dv' = dv]_vars
\* C15: every request and every tracee step of a diversion acts on the
\* cloned session; the replay session's memory is never written; when
\* divert() returns the diversion's tasks are killed and the session pointer
\* is null.
C15_ReplayUntouched ==
  /\ dv.mem.replay = 0
  /\ dv.dispatched_to \in {"none", "diversion"}
  /\ dv.phase \in {"requests", "advance"} => dv.session = "diversion" /\ ~dv.killed
  /\ dv.phase = "done" => dv.killed /\ dv.session = "null"
C15_Witness ==
  /\ dv.phase = "done"
  /\ dv.mem.diversion = 1 /\ dv.mem.replay = 0
  /\ dv.killed /\ dv.session = "null"
  /\ dv.stop = "syscall"


(***************************************************************************)
(* Properties of the record session.                                       *)
(***************************************************************************)
Running == {t \in Tids : sched.st[t] = "RUNNING"}
HasFrame(event) == \E i \in DOMAIN sched.trace : sched.trace[i].event = event

\* C16: in every reachable state of the scheduler at most one tracee is
\* RUNNING, and it is the one the scheduler resumed last.
C16_AtMostOneRunning ==
  /\ Cardinality(Running) <= 1
  /\ \A t \in Running :
       /\ sched.cur = t
       /\ sched.resumes # <<>> /\ sched.resumes[Len(sched.resumes)] = t
C16_Witness ==
  /\ sched.st[1] = "RUNNING"
  /\ sched.sys[2] = "woken" /\ Schedulable(sched, 2)
  /\ HasFrame("SCHED") /\ HasFrame("SYSCALL_exit")

Count(seq, i, j, t) == Cardinality({k \in i .. j : seq[k] = t})

\* C17: in every window of K consecutive preemptions during which the same
\* N tasks of equal priority share the CPU, each of them is preempted at the
\* end of floor(K/N) or ceil(K/N) timeslices.
C17_Fairness ==
  LET N == Cardinality(Contenders(sched)) IN
    \A i, j \in DOMAIN sched.win : i <= j =>
      LET K == j - i + 1 IN
        \A t \in Contenders(sched) :
          /\ Count(sched.win, i, j, t) >= K \div N
          /\ Count(sched.win, i, j, t) <= (K + N - 1) \div N
C17_Witness ==
  /\ Cardinality(Contenders(sched)) = 2
  /\ Len(sched.win) >= 3

FramesOf(t) == SelectSeq(sched.trace, LAMBDA f : f.tid = t)
FinalExit(t) ==
  /\ FramesOf(t) # <<>>
  /\ FramesOf(t)[Len(FramesOf(t))].event \in {"EXIT", "UNSTABLE_EXIT"}
RecordingDone ==
  \A t \in Tids : sched.st[t] # "UNBORN" => sched.st[t] = "EXITED" /\ FinalExit(t)
\* a task is leaving exit_group: the program returns from main
ProcessExits ==
  \E t \in Tids : sched.sys[t] = "entered" /\ sched.no[t] = "exit_group"

\* C18: once the program returns from main the recording ends, and then
\* every task that ever existed has a final EXIT or UNSTABLE_EXIT frame, a
\* thread blocked in a syscall included, and the replay of the trace ends
\* with every task exited and the output of the recording.
C18_EventTotality ==
  /\ [](\A t \in Tids : sched.st[t] = "EXITED" => FinalExit(t))
  /\ [](RecordingDone =>
          Replay(sched.trace, {1}, <<>>) = [status |-> "done", out |-> sched.out])
  /\ [][~RecordingDone]_vars
  /\ ProcessExits ~> RecordingDone
C18_Witness ==
  /\ RecordingDone
  /\ Len(FramesOf(2)) = 2
  /\ FramesOf(2)[1].event = "SYSCALL_enter" /\ FramesOf(2)[1].no = "nanosleep"
  /\ FramesOf(2)[2].event = "UNSTABLE_EXIT" /\ FramesOf(2)[2].data = 1
  /\ sched.out = <<1>>

Later(i) ==
  {j \in DOMAIN sched.trace : j > i /\ sched.trace[j].tid = sched.trace[i].tid}
NextOf(i) == CHOOSE j \in Later(i) : \A k \in Later(i) : j <= k

\* C19: the frame of a task that follows one of its SYSCALL(enter) frames is
\* the SYSCALL(exit) frame of that syscall, or the task's exit frame when it
\* exits inside the syscall; an enter frame that no frame of the task
\* follows belongs to a task that is still inside that syscall.
C19_EnterHasExit ==
  \A i \in DOMAIN sched.trace :
    sched.trace[i].event = "SYSCALL_enter" =>
      LET f == sched.trace[i] IN
        IF Later(i) = {}
        THEN /\ sched.st[f.tid] # "EXITED"
             /\ sched.sys[f.tid] # "none" /\ sched.no[f.tid] = f.no
             /\ ~RecordingDone
        ELSE LET g == sched.trace[NextOf(i)] IN
               \/ g.event = "SYSCALL_exit" /\ g.no = f.no
               \/ g.event \in {"EXIT", "UNSTABLE_EXIT"}
C19_Witness ==
  /\ \E i, k, j \in DOMAIN sched.trace :
       /\ i < k /\ k < j /\ Later(i) # {} /\ j = NextOf(i)
       /\ sched.trace[i].event = "SYSCALL_enter" /\ sched.trace[i].no = "nanosleep"
       /\ sched.trace[k].tid # sched.trace[i].tid
       /\ sched.trace[j].event = "SYSCALL_exit"
  /\ \E i \in DOMAIN sched.trace :
       /\ sched.trace[i].event = "SYSCALL_enter" /\ Later(i) # {}
       /\ sched.trace[NextOf(i)].event = "UNSTABLE_EXIT"

\* C20: global_time strictly increases along the trace, so no two frames
\* share one and the frames of one task are totally ordered by it; every
\* frame is of the task resumed last when it was written, so the order of
\* the frames across tasks is the order of the scheduler's resumes.
C20_FramesOrdered ==
  LET tr == sched.trace IN
  /\ \A i \in DOMAIN tr : i > 1 => tr[i - 1].global_time < tr[i].global_time
  /\ \A i, j \in DOMAIN tr : i # j => tr[i].global_time # tr[j].global_time
  /\ \A i \in DOMAIN tr :
       /\ tr[i].resume \in DOMAIN sched.resumes
       /\ sched.resumes[tr[i].resume] = tr[i].tid
  /\ \A i, j \in DOMAIN tr : i < j => tr[i].resume <= tr[j].resume
C20_Witness ==
  /\ Len(sched.trace) >= 5
  /\ \E i, j, k \in DOMAIN sched.trace :
       /\ i < j /\ j < k
       /\ sched.trace[i].tid = 1 /\ sched.trace[j].tid = 2
       /\ sched.trace[k].tid = 1
  /\ HasFrame("SCHED") /\ HasFrame("UNSTABLE_EXIT")


\* C27: when divert() has left its request loop the diversion is dying, on
\* every exit path: the closing assertion never fails.
C27_ExitOnlyWhenDying ==
  DivertEnded => dv.phase = "done" /\ diversion_dying(dv.refcount)

\* C28: DREQ_READ_SIGINFO adds exactly one to the reference count and is
\* answered with req->mem.len zero bytes, DREQ_WRITE_SIGINFO takes exactly
\* one off and is acknowledged; neither is dispatched, resumes a tracee or
\* ends the loop, and no other step changes the count.
C28_SiginfoCountsRefs ==
  /\ [][Takes("DREQ_READ_SIGINFO") =>
          /\ dv'.refcount = dv.refcount + 1
          /\ dv'.reply.type = "read_siginfo"
          /\ Len(dv'.reply.bytes) = dv'.len
          /\ \A i \in DOMAIN dv'.reply.bytes : dv'.reply.bytes[i] = 0]_vars
  /\ [][Takes("DREQ_WRITE_SIGINFO") =>
          /\ dv'.refcount = dv.refcount - 1
          /\ dv'.reply.type = "write_siginfo"]_vars
  /\ [][\A req \in {"DREQ_READ_SIGINFO", "DREQ_WRITE_SIGINFO"} : Takes(req) =>
          /\ dv'.dispatched = "none" /\ dv'.dispatched_to = "none"
          /\ dv'.phase = "requests" /\ dv'.t = dv.t
          /\ NothingResumed]_vars
  /\ [][dv'.refcount # dv.refcount =>
          /\ dv.phase = "requests"
          /\ dv'.req \in {"DREQ_READ_SIGINFO", "DREQ_WRITE_SIGINFO"}]_vars
C28_Witness ==
  /\ dv.phase = "requests" /\ dv.req = "DREQ_READ_SIGINFO"
  /\ dv.refcount = 1 /\ dv.len = 2 /\ dv.reply.bytes = <<0, 0>>
  /\ dv.stop = "syscall"

\* C29: a breakpoint or watchpoint request taken while the diversion is
\* dying ends the diversion and is not dispatched; taken while the count is
\* above zero it is dispatched to the diversion session and the request loop
\* goes on.
C29_BreakWhileDying ==
  [][\A req \in BreakRequests : Takes(req) =>
       /\ dv.refcount = 0 =>
            /\ dv'.phase = "done" /\ dv'.session = "null"
            /\ dv'.dispatched = "none" /\ dv'.dispatched_to = "none"
            /\ NothingResumed
       /\ dv.refcount > 0 =>
            /\ dv'.phase = "requests" /\ dv'.session = "diversion"
            /\ dv'.dispatched = req /\ dv'.dispatched_to = "diversion"
            /\ dv'.refcount = dv.refcount]_vars
C29_Witness ==
  /\ dv.phase = "done" /\ dv.req = "DREQ_SET_HW_BREAK"
  /\ dv.refcount = 0 /\ dv.dispatched = "none"
  /\ dv.stop = "syscall"

\* the invocations on the stack that hold the lock
Owners == {i \in 1 .. Len(stack) : stack[i].own}

\* C30: buffer_locked is 1 exactly while one invocation is between its
\* prep_syscall, which took the lock, and its commit_syscall or its overflow
\* fallback, which release it; an invocation that did not take the lock never
\* clears it, and once every wrapper has returned buffer_locked is 0.
C30_LockedState ==
  /\ buffer_locked \in {0, 1}
  /\ buffer_locked = 1 <=> Owners # {}
  /\ Cardinality(Owners) <= 1
  /\ \A i \in Owners :
       /\ ~Inner(stack[i])
       /\ stack[i].pc \in {"check", "arm", "syscall", "blocked", "disarm",
                           "copy", "commit", "fields", "unlock"}
  /\ \A f \in Frames : f.pc = "ret" => ~f.own
  /\ stack = <<>> => buffer_locked = 0
C30_LockPairsWithOwner ==
  /\ []C30_LockedState
  /\ [][buffer_locked' # buffer_locked =>
          /\ stack # <<>> /\ Len(stack') = Len(stack)
          /\ buffer_locked' = 1 =>
               Top.pc = "prep" /\ Top.entry_locked = 0 /\ stack'[Len(stack)].own
          /\ buffer_locked' = 0 =>
               /\ Top.own /\ ~stack'[Len(stack)].own
               /\ \/ Top.pc = "unlock"
                  \/ Top.pc = "check" /\ stack'[Len(stack)].chk = "overflow"]_vars
C30_Witness ==
  /\ Len(stack) = 1
  /\ Top.id = 1 /\ calls = 2
  /\ Top.pc = "ret" /\ Top.path = "buffered"
  /\ buffer_locked = 0

\* C25: every committed record's size field is the record header plus the
\* payload bytes its wrapper reserved; a commit advances num_rec_bytes by the
\* stored (rounded) size of that record; num_rec_bytes is the sum of the
\* stored sizes of the records committed since the tracer's last reset, so a
\* walk of the ring by stored sizes ends at buffer_last().
C25_SizeIsHeaderPlusPayload ==
  \A f \in Frames : f.recs = 1 =>
    RecSize(ring, f.start) = SizeofRecord + Payload1(f) + Payload2(f)
C25_RecordSizes ==
  /\ []C25_SizeIsHeaderPlusPayload
  /\ [](WalkComplete(0, RingWords))
  /\ [][num_rec_bytes' > num_rec_bytes =>
          /\ stack # <<>>
          /\ num_rec_bytes' =
               num_rec_bytes + stored_record_size(RecSize(ring', Top.start))
          /\ PAdd(Top.start, stored_record_size(RecSize(ring', Top.start)))
               = PAdd(PAdd(buffer, SizeofHdr), num_rec_bytes')]_vars

\* bytes of outparam space the wrappers reserve for non-NULL pointers
Reserved(f) ==
  (IF f.tp THEN (IF f.fn = "gettimeofday" THEN SizeofTimeval ELSE SizeofTimespec)
   ELSE 0)
  + (IF f.tzp THEN SizeofTimezone ELSE 0)

\* C26: on the buffered path the kernel writes the outparams into the record
\* payload, never into caller memory, and the wrapper copies them out: after
\* a buffered clock_gettime or gettimeofday has returned, each non-NULL caller
\* outparam equals the corresponding payload bytes of the committed record;
\* for a NULL caller pointer no payload is reserved and the kernel is given
\* NULL.
C26_OutparamsFromRecord ==
  \A f \in Frames :
    /\ (f.own /\ f.pc = "check") =>
         /\ PSub(f.ptr, buffer_last) = SizeofRecord + Reserved(f)
         /\ ~f.tp => f.tp2 = NULL
         /\ ~f.tzp => f.tzp2 = NULL
    /\ (f.pc = "ret" /\ f.path = "buffered"
          /\ f.fn \in {"clock_gettime", "gettimeofday"}) =>
         /\ f.recs = 1
         /\ \A j \in DOMAIN f.out1 : f.out1[j].k # "direct"
         /\ \A j \in DOMAIN f.out2 : f.out2[j].k # "direct"
         /\ f.tp => f.out1 = RecWords(ring, PAdd(f.start, SizeofRecord),
                                      Reserved([f EXCEPT !.tzp = FALSE]))
         /\ f.tzp => f.out2 = RecWords(ring,
                        PAdd(f.start, SizeofRecord + Reserved([f EXCEPT !.tzp = FALSE])),
                        SizeofTimezone)
         /\ ~f.tp => f.out1 = <<>> /\ f.tp2 = NULL
         /\ ~f.tzp => f.out2 = <<>> /\ f.tzp2 = NULL

\* the tracer flushes a ring that holds records
TracerFlushes == num_rec_bytes > 0 /\ num_rec_bytes' = 0

StartsWith(b, a) == Len(a) <= Len(b) /\ SubSeq(b, 1, Len(a)) = a

RecordedSleeps == IF rr.phase = "record" THEN rr.sleeps ELSE rr.rec.sleeps
Results(sl) ==
  [i \in DOMAIN sl |->
     [fn |-> sl[i].fn, ret |-> sl[i].ret, errno |-> sl[i].errno, rem |-> sl[i].rem]]

RingOffset(p) == PSub(p, buffer)

\* C31: the ring always keeps room for one more record header, so the
\* pointer the next prep_syscall returns, the outparam bytes the kernel
\* writes for a buffered syscall and the header commit_syscall writes lie
\* inside the mapped ring.
C31_RoomForHeader ==
  buffer # NULL =>
    /\ SizeofHdr + num_rec_bytes + SizeofRecord <= SYSCALLBUF_BUFFER_SIZE
    /\ \A f \in Frames :
         /\ (f.own /\ f.pc = "check") =>
              /\ RingOffset(f.ptr) - Reserved(f) = SizeofHdr + num_rec_bytes + SizeofRecord
              /\ RingOffset(f.ptr) - Reserved(f) <= SYSCALLBUF_BUFFER_SIZE
         /\ f.pay =>
              /\ PayWords(f) \subseteq RingIdx
              /\ RingOffset(f.ptr) <= SYSCALLBUF_BUFFER_SIZE - SizeofRecord
         /\ (f.pc = "fields" \/ f.recs = 1) =>
              /\ WordAt(f.start) \in RingIdx
              /\ WordAt(f.start) + 1 \in RingIdx
              /\ RingOffset(f.start) + SizeofRecord <= SYSCALLBUF_BUFFER_SIZE
C31_Witness ==
  /\ Len(stack) = 1
  /\ Top.id = 2 /\ Top.pc = "ret" /\ Top.path = "buffered" /\ Top.recs = 1
  /\ Top.fn = "clock_gettime" /\ ~Top.tp
  /\ num_rec_bytes = 2 * SizeofRecord + SizeofTimespec
  /\ SizeofHdr + num_rec_bytes + SizeofRecord <= SYSCALLBUF_BUFFER_SIZE

\* the record_start an invocation's prep_syscall reserved its record at
ReservedStart(f) == PSub(f.ptr, SizeofRecord + Reserved(f))

\* C32: the record commit_syscall writes starts where the same invocation's
\* prep_syscall reserved it: when a commit that is not dropped begins,
\* buffer_last() is still the reserved start, whatever handlers and tracer
\* flushes came in between.
C32_CommitWhereReserved ==
  \A f \in Frames :
    /\ (f.own /\ f.pc = "commit" /\ abort_commit = 0) =>
         buffer_last = ReservedStart(f)
    /\ (f.pc = "fields" \/ f.recs = 1) => f.start = ReservedStart(f)

\* what the caller finds in an outparam after the call: its old contents,
\* the bytes the kernel wrote for this call, or other bytes
CallerSees(f, out) ==
  IF out = <<>> THEN "untouched"
  ELSE IF \A j \in DOMAIN out : out[j].k \in {"direct", "pay"} /\ out[j].id = f.id
       THEN "kernel" ELSE "other"
\* what the kernel's outcome gives the caller of the plain syscall
KernelGives(f, given) ==
  IF given /\ KernelWrites(f.fn, f.ret) THEN "kernel" ELSE "untouched"

\* C36: a clock_gettime or gettimeofday that returns has given its caller
\* what the kernel's outcome determines, on the buffered and on the traced
\* path alike: the same return value, the same errno, and outparams that
\* hold the kernel's bytes when it wrote them and their old contents when
\* the syscall failed.
C36_PathsIndistinguishable ==
  \A f \in Frames :
    (f.pc = "ret" /\ f.fn \in {"clock_gettime", "gettimeofday"}) =>
      /\ f.path \in {"buffered", "traced"}
      /\ f.rv = update_errno_ret(f.ret).ret
      /\ (f = Top /\ update_errno_ret(f.ret).set) => errno = -f.ret
      /\ CallerSees(f, f.out1) = KernelGives(f, f.tp)
      /\ CallerSees(f, f.out2) = KernelGives(f, f.tzp)

InErrnoRange(ret) == -EHWPOISON <= ret /\ ret < 0

\* C37: update_errno_ret gives -1 and sets errno to -ret for every raw
\* result from -EHWPOISON to -1; every other result, non-negative or below
\* -EHWPOISON, is returned as it is and errno keeps its value; the record in
\* the ring holds the raw result.
C37_ErrnoMapping ==
  /\ [](\A f \in Frames : (f.pc = "ret" /\ f.path = "buffered") =>
          /\ InErrnoRange(f.ret) => f.rv = -1 /\ errno = -f.ret
          /\ ~InErrnoRange(f.ret) => f.rv = f.ret
          /\ f.recs = 1 =>
               /\ ring[WordAt(f.start)].k = "ret"
               /\ ring[WordAt(f.start)].ret = f.ret)
  /\ [][(At("unlock") /\ ~InErrnoRange(Top.ret)) => errno' = errno]_vars
  /\ [][(At("unlock") /\ InErrnoRange(Top.ret)) => errno' = -Top.ret]_vars
C37_Witness ==
  /\ Len(stack) = 1
  /\ Top.pc = "ret" /\ Top.path = "buffered" /\ Top.recs = 1
  /\ Top.ret = -EHWPOISON /\ Top.rv = -1 /\ errno = EHWPOISON
  /\ ring[WordAt(Top.start)].ret = -EHWPOISON

\* C38: a step of a diverted tracee that ends with a signal pending
\* processes no syscall and notifies the debugger of one stop of the task
\* (pid its thread-group id, tid its recorded tid) with the pending signal,
\* or with SIGTRAP when the signal is another one and a user breakpoint is
\* at the task's instruction pointer; a step that ends at a syscall
\* processes it and reports no stop.
C38_SignalStopNotified ==
  /\ [](dv.stop = "signal" =>
          /\ dv.regs = NoRegs /\ dv.live = NoLive /\ ~dv.emu_finished
          /\ dv.notified.pid = Tgid(dv.stopped)
          /\ dv.notified.tid = RecTid(dv.stopped)
          /\ dv.notified.sig =
               IF dv.pending_sig # SIGTRAP /\ dv.bkpt_user
               THEN SIGTRAP ELSE dv.pending_sig)
  /\ [](dv.stop = "syscall" =>
          /\ dv.notified = NoStop
          /\ dv.regs.original_syscallno \in DivSyscalls
          /\ LET what == process_syscall(dv.regs.original_syscallno, dv.desched)
             IN /\ what = "emulate" => dv.emu_finished /\ dv.live = NoLive
                /\ what = "skip" => dv.live = NoLive
                /\ what = "execute" =>
                     dv.live.no = dv.regs.original_syscallno)
  /\ [][dv.phase # "advance" => dv'.notified = dv.notified]_vars
  /\ [][(dv.phase = "advance" /\ dv' # dv) =>
          (dv'.notified # NoStop <=> dv'.stop = "signal")]_vars
C38_Witness ==
  /\ dv.phase = "requests" /\ dv.stop = "signal"
  /\ dv.stopped = 2 /\ dv.req = "DREQ_STEP"
  /\ dv.pending_sig = SIGSEGV /\ dv.bkpt_user
  /\ dv.notified = [pid |-> Tgid(2), tid |-> RecTid(2), sig |-> SIGTRAP]

\* C39, as the specification states it: the reference count of a diversion
\* is never below zero, whatever requests the debugger sends.
C39_RefcountNeverNegative == dv.refcount >= 0

\* C40: a diverted tracee is resumed only by cont_sysemu, for a continue
\* request, or cont_sysemu_singlestep, for a step request, and only with
\* child_sig zero; any other request type is fatal in advance(); a syscall
\* made against the kernel is one process_syscall chose to execute at the
\* tracee's syscall stop.
C40_ResumedOnlyInSysemu ==
  /\ [](dv.resumed \in {"none", "cont_sysemu", "cont_sysemu_singlestep"})
  /\ [](\A req \in Requests :
          ResumeMode(req) = CASE req = "DREQ_CONTINUE" -> "cont_sysemu"
                              [] req = "DREQ_STEP" -> "cont_sysemu_singlestep"
                              [] OTHER -> "fatal")
  /\ [](dv.phase = "advance" => dv.req \in {"DREQ_CONTINUE", "DREQ_STEP"})
  /\ [][(dv.phase = "advance" /\ dv'.phase = "requests") =>
          /\ dv.child_sig = 0
          /\ dv'.resumed = IF dv.req = "DREQ_CONTINUE" THEN "cont_sysemu"
                           ELSE "cont_sysemu_singlestep"]_vars
  /\ [][dv'.resumed # dv.resumed => dv.phase = "advance"]_vars
  /\ [](dv.live # NoLive =>
          /\ dv.stop = "syscall"
          /\ dv.live.no = dv.regs.original_syscallno
          /\ process_syscall(dv.live.no, dv.desched) = "execute")
  /\ [][dv'.live # dv.live => dv.phase = "advance"]_vars
C40_Witness ==
  /\ dv.phase = "requests" /\ dv.stop = "syscall"
  /\ dv.req = "DREQ_STEP" /\ dv.resumed = "cont_sysemu_singlestep"
  /\ dv.child_sig = 0
  /\ dv.live.no = SYS_nanosleep /\ dv.live.tid = dv.stopped

(***************************************************************************)
(* Properties of init(), set_up_buffer() and drop_buffer().                *)
(***************************************************************************)
\* C33, as the specification states it: whatever the interleaving of the
\* threads' first wrapper calls, the filter is installed and drop_buffer is
\* registered once in the process, and set_up_buffer runs once in each
\* thread.
C33_InstalledOnce ==
  /\ proc.installs <= 1 /\ proc.atforks <= 1
  /\ proc.is_seccomp_bpf_installed = 1 =>
       proc.installs = 1 /\ proc.atforks = 1
  /\ \A t \in DOMAIN proc.th :
       /\ proc.th[t].setups <= 1
       /\ proc.th[t].buffer # NULL => proc.th[t].setups = 1

\* the child a fork has just made
Forked == proc.child = NoChild /\ proc'.child # NoChild
C35_SignalsBlocked ==
  \A t \in DOMAIN proc.th :
    /\ proc.th[t].pc \in {"rrcall", "restore"} => proc.th[t].mask = AllSigs
    /\ ~proc.th[t].cs_signal
    /\ proc.th[t].setups = 1 /\ proc.th[t].pc \in {"app", "locked"} =>
         proc.th[t].mask = proc.th[t].entry_mask

====
